---------------------------- MODULE Spec2Model ----------------------------
(***************************************************************************)
(* VectHare vector-backend access layer: the hybrid (Standard) adapter,    *)
(* the single-tenant LanceDB adapter and the two multitenant adapters      *)
(* (Qdrant, Milvus), with the collection-id decoder of the multitenant     *)
(* adapters.                                                               *)
(*                                                                         *)
(* Strings that the decoder takes apart are sequences of tokens.  A token  *)
(* is either one of the two delimiters ":" and "_" or a delimiter-free     *)
(* word ("vh", "vecthare", "chat", ...).  The words form a prefix code, so *)
(* distinct token sequences are distinct JavaScript strings and            *)
(* concatenation, split and join on token sequences are those of the       *)
(* strings they stand for.                                                 *)
(***************************************************************************)
EXTENDS Integers, Sequences, FiniteSets, TLC

VARIABLES
    collectionId,     \* codec: the argument handed to _parseCollectionId
    parsed,           \* codec: what the call did (NotParsed before the call)
    backend,          \* which adapter this instance is
    pluginAvailable,  \* StandardBackend.pluginAvailable
    call,             \* the last operation invoked on the adapter and its outcome
    store,            \* rows held by the backing store
    host,             \* settings of the host application the resolver reads
    initializing      \* how far an initialize of the hybrid adapter has got

vars == <<collectionId, parsed, backend, pluginAvailable, call, store, host,
          initializing>>

-----------------------------------------------------------------------------
(* Bounds *)

\* longest enumerated collection id, in tokens
MaxIdLen == 5

\* most collection ids in one queryMultipleCollections call
MaxIds == 2

\* most items in one insertVectorItems call
MaxItems == 2

-----------------------------------------------------------------------------
(* JavaScript values seen by the decoder *)

Tokens == {"vh", "vecthare", "chat", "doc", ":", "_"}

RECURSIVE TokenSeqs(_)
TokenSeqs(n) ==
    IF n = 0 THEN {<<>>}
    ELSE LET shorter == TokenSeqs(n - 1)
         IN shorter \cup {Append(s, t) : s \in {x \in shorter : Len(x) = n - 1}, t \in Tokens}

Str(s) == [kind |-> "string", str |-> s, num |-> 0]
JsNull == [kind |-> "null", str |-> <<>>, num |-> 0]
JsUndefined == [kind |-> "undefined", str |-> <<>>, num |-> 0]
JsNumber(n) == [kind |-> "number", str |-> <<>>, num |-> n]
JsBoolean(b) == [kind |-> "boolean", str |-> <<>>, num |-> IF b THEN 1 ELSE 0]
JsObject == [kind |-> "object", str |-> <<>>, num |-> 1]

\* the ids quoted by the specification and by the decoder's own comment
ExampleIds ==
    { Str(<<"vh", ":", "chat", ":", "abc", ":", "def">>),
      Str(<<"vecthare", "_", "doc", "_", "char", "_", "456">>),
      Str(<<"vh", ":", "lorebook", ":", "world", "_", "info", "_", "123">>),
      Str(<<"garbage">>) }

NonStrings ==
    {JsNull, JsUndefined, JsNumber(0), JsNumber(7), JsBoolean(FALSE), JsBoolean(TRUE), JsObject}

CodecInputs == {Str(s) : s \in TokenSeqs(MaxIdLen)} \cup ExampleIds \cup NonStrings

\* JavaScript truthiness (the `!collectionId` test)
Truthy(v) ==
    CASE v.kind = "string" -> v.str # <<>>
      [] v.kind \in {"number", "boolean"} -> v.num # 0
      [] v.kind = "object" -> TRUE
      [] OTHER -> FALSE

\* String.prototype.split(sep) on a token sequence: the list of the maximal
\* delimiter-free runs, empty runs included ("a::b" gives "a", "", "b")
RECURSIVE SplitSeq(_, _)
SplitSeq(s, sep) ==
    IF \A i \in 1..Len(s) : s[i] # sep THEN <<s>>
    ELSE LET k == CHOOSE i \in 1..Len(s) : s[i] = sep /\ \A j \in 1..(i - 1) : s[j] # sep
         IN <<SubSeq(s, 1, k - 1)>> \o SplitSeq(SubSeq(s, k + 1, Len(s)), sep)

\* collectionId.split(sep): a TypeError on a value that is no string
Split(v, sep) ==
    IF v.kind = "string" THEN [raised |-> FALSE, parts |-> SplitSeq(v.str, sep)]
    ELSE [raised |-> TRUE, parts |-> <<>>]

\* Array.prototype.join(sep)
RECURSIVE Join(_, _)
Join(parts, sep) ==
    IF Len(parts) = 0 THEN <<>>
    ELSE IF Len(parts) = 1 THEN parts[1]
    ELSE parts[1] \o <<sep>> \o Join(Tail(parts), sep)

\* parts.slice(from) with a 0-based index
Slice(parts, from) == SubSeq(parts, from + 1, Len(parts))

\* parts[i] with a 0-based index: undefined past the end
At(parts, i) == IF i + 1 \in 1..Len(parts) THEN Str(parts[i + 1]) ELSE JsUndefined

Tenant(t, s) == [raised |-> FALSE, type |-> t, sourceId |-> s]
TypeError == [raised |-> TRUE, type |-> JsUndefined, sourceId |-> JsUndefined]

-----------------------------------------------------------------------------
(* The collection-id decoder *)

\* the decoder with its guard against non-strings left out
ParseUnguarded(id) ==
    LET colon == Split(id, ":")
        legacy == Split(id, "_")
    IN IF colon.raised THEN TypeError
       ELSE IF Len(colon.parts) >= 3 /\ colon.parts[1] = <<"vh">>
            THEN Tenant(At(colon.parts, 1), Str(Join(Slice(colon.parts, 2), ":")))
       ELSE IF Len(legacy.parts) >= 3 /\ legacy.parts[1] = <<"vecthare">>
            THEN Tenant(At(legacy.parts, 1), Str(Join(Slice(legacy.parts, 2), "_")))
       ELSE Tenant(Str(<<"chat">>), id)

\* the decoder taking the LAST ':' as the second delimiter
ParseLastColon(id) ==
    LET colon == Split(id, ":")
        n == Len(colon.parts)
    IN IF ~Truthy(id) \/ id.kind # "string"
       THEN Tenant(Str(<<"unknown">>), Str(<<"unknown">>))
       ELSE IF n >= 3 /\ colon.parts[1] = <<"vh">>
            THEN Tenant(Str(Join(SubSeq(colon.parts, 2, n - 1), ":")), At(colon.parts, n - 1))
       ELSE ParseUnguarded(id)

\* the decoder keeping only the third '_'-separated part of a legacy id
ParseLegacyThirdPart(id) ==
    LET colon == Split(id, ":")
        legacy == Split(id, "_")
    IN IF ~Truthy(id) \/ id.kind # "string"
       THEN Tenant(Str(<<"unknown">>), Str(<<"unknown">>))
       ELSE IF Len(colon.parts) >= 3 /\ colon.parts[1] = <<"vh">>
            THEN Tenant(At(colon.parts, 1), Str(Join(Slice(colon.parts, 2), ":")))
       ELSE IF Len(legacy.parts) >= 3 /\ legacy.parts[1] = <<"vecthare">>
            THEN Tenant(At(legacy.parts, 1), At(legacy.parts, 2))
       ELSE Tenant(Str(<<"chat">>), id)

\* the decoder taking an id with a single ':' after "vh" as current format
ParseTwoParts(id) ==
    LET colon == Split(id, ":")
        legacy == Split(id, "_")
    IN IF ~Truthy(id) \/ id.kind # "string"
       THEN Tenant(Str(<<"unknown">>), Str(<<"unknown">>))
       ELSE IF Len(colon.parts) >= 2 /\ colon.parts[1] = <<"vh">>
            THEN Tenant(At(colon.parts, 1), Str(Join(Slice(colon.parts, 2), ":")))
       ELSE IF Len(legacy.parts) >= 3 /\ legacy.parts[1] = <<"vecthare">>
            THEN Tenant(At(legacy.parts, 1), Str(Join(Slice(legacy.parts, 2), "_")))
       ELSE Tenant(Str(<<"chat">>), id)

Qdrant_parseCollectionId(id) ==
    LET colon == Split(id, ":")
        legacy == Split(id, "_")
    IN IF ~Truthy(id) \/ id.kind # "string"
       THEN Tenant(Str(<<"unknown">>), Str(<<"unknown">>))
       ELSE IF colon.raised THEN TypeError
       ELSE IF Len(colon.parts) >= 3 /\ colon.parts[1] = <<"vh">>
            THEN Tenant(At(colon.parts, 1), Str(Join(Slice(colon.parts, 2), ":")))
       ELSE IF Len(legacy.parts) >= 3 /\ legacy.parts[1] = <<"vecthare">>
            THEN Tenant(At(legacy.parts, 1), Str(Join(Slice(legacy.parts, 2), "_")))
       ELSE Tenant(Str(<<"chat">>), id)

Milvus_parseCollectionId(id) ==
    LET colon == Split(id, ":")
        legacy == Split(id, "_")
    IN IF ~Truthy(id) \/ id.kind # "string"
       THEN Tenant(Str(<<"unknown">>), Str(<<"unknown">>))
       ELSE IF colon.raised THEN TypeError
       ELSE IF Len(colon.parts) >= 3 /\ colon.parts[1] = <<"vh">>
            THEN Tenant(At(colon.parts, 1), Str(Join(Slice(colon.parts, 2), ":")))
       ELSE IF Len(legacy.parts) >= 3 /\ legacy.parts[1] = <<"vecthare">>
            THEN Tenant(At(legacy.parts, 1), Str(Join(Slice(legacy.parts, 2), "_")))
       ELSE Tenant(Str(<<"chat">>), id)

\* the decoder of a multitenant adapter
ParseCollectionId(b, id) ==
    IF b = "qdrant" THEN Qdrant_parseCollectionId(id) ELSE Milvus_parseCollectionId(id)

Multitenant == {"qdrant", "milvus"}

-----------------------------------------------------------------------------
(* Specification of the decoder: an id is chosen, then decoded by one of   *)
(* the two multitenant adapters.                                           *)

\* the settings of the host application that getProviderSpecificParams reads:
\* extension_settings (apiUrl, apiKey), textgenerationwebui_settings.server_urls,
\* secret_state['bananabread_api_key'] and oai_settings (vertexai_*)
ServerUrls == {[t \in {"ollama", "llamacpp", "vllm"} |-> u] : u \in {"s1", "s2"}}

\* secret_state['bananabread_api_key']: absent, a non-array value, or an
\* array of secrets {active, value}
Secrets ==
    { [kind |-> "undefined", list |-> <<>>],
      [kind |-> "string", list |-> <<>>],
      [kind |-> "array", list |-> <<>>],
      [kind |-> "array", list |-> <<[active |-> FALSE, value |-> "k1"],
                                    [active |-> TRUE, value |-> "k2"]>>],
      [kind |-> "array", list |-> <<[active |-> FALSE, value |-> "k1"]>>] }

Hosts ==
    [apiUrl : {"e1", "e2"}, apiKey : {"ek"}, server_urls : ServerUrls,
     bananabread_api_key : Secrets, vertexai_auth_mode : {"full"},
     vertexai_region : {"r1", "r2"}, vertexai_express_project_id : {"p1"}]

DefaultHost ==
    [apiUrl |-> "e1", apiKey |-> "ek", server_urls |-> [t \in {"ollama", "llamacpp", "vllm"} |-> "s1"],
     bananabread_api_key |-> [kind |-> "undefined", list |-> <<>>],
     vertexai_auth_mode |-> "full", vertexai_region |-> "r1",
     vertexai_express_project_id |-> "p1"]

NotParsed == [by |-> "none", result |-> TypeError]

\* no operation is in progress
NoCall == [op |-> "none"]

\* no initialize is in progress; `writes` are the values an initialize has
\* assigned to pluginAvailable, `responses` the answers it has had
NotInitializing == [pc |-> "idle", writes |-> <<>>, responses |-> <<>>]

CodecInit ==
    /\ collectionId \in CodecInputs
    /\ parsed = NotParsed
    /\ backend = "qdrant"
    /\ pluginAvailable = FALSE
    /\ call = NoCall
    /\ store = {}
    /\ host = DefaultHost
    /\ initializing = NotInitializing

Decode(b) ==
    /\ parsed = NotParsed
    /\ parsed' = [by |-> b, result |-> ParseCollectionId(b, collectionId)]
    /\ UNCHANGED <<collectionId, backend, pluginAvailable, call, store, host, initializing>>

CodecNext == \E b \in Multitenant : Decode(b)

SpecCodec == CodecInit /\ [][CodecNext]_vars

-----------------------------------------------------------------------------
(* Settings, provider parameters and HTTP responses *)

Adapters == {"standard", "lancedb", "qdrant", "milvus"}

\* an optional JavaScript number, in hundredths (0.5 is Num(50))
Num(n) == [def |-> TRUE, n |-> n]
NoNum == [def |-> FALSE, n |-> 0]

\* `x || 0.0`
OrZero(x) == IF x.def /\ x.n # 0 THEN x.n ELSE 0

\* the settings objects a caller passes; "undefined" is an absent field
SettingsSet ==
    { [source |-> "undefined", score_threshold |-> NoNum, cohere_model |-> "undefined"],
      [source |-> "transformers", score_threshold |-> Num(0), cohere_model |-> "undefined"],
      [source |-> "cohere", score_threshold |-> Num(50), cohere_model |-> "embed-v3"] }

\* EMBEDDING_PROVIDERS[providerId]?.modelField || null
getModelField(providerId) == IF providerId = "cohere" THEN "cohere_model" ELSE "null"

getModelFromSettings(settings) ==
    IF getModelField(settings.source) = "cohere_model" /\ settings.cohere_model # "undefined"
    THEN settings.cohere_model
    ELSE ""

\* the fields the resolver adds for the modelled providers
getProviderSpecificParams(settings, isQuery) ==
    IF settings.source = "cohere"
    THEN [input_type |-> IF isQuery THEN "search_query" ELSE "search_document"]
    ELSE [input_type |-> "undefined"]

\* `settings.source || 'transformers'`
SourceOf(settings) == IF settings.source = "undefined" THEN "transformers" ELSE settings.source

\* the physical collection of the multitenant adapters
VecthareMain == Str(<<"vecthare", "_", "main">>)

\* filters: { type, sourceId } from the decoded collection id
Filters(tenant) == [present |-> TRUE, type |-> tenant.type, sourceId |-> tenant.sourceId]
NoFilters == [present |-> FALSE, type |-> JsUndefined, sourceId |-> JsUndefined]

\* a response's `ok`: a status in 200..299
ResponseOk(response) == response.status \in 200..299

\* the remote call failed: transport error or non-success status
CallFailed(response) == response.net = "error" \/ ~ResponseOk(response)

\* what an operation did: whether it raised, what it returned, what it sent
Returned(v, reqs) == [raised |-> FALSE, value |-> v, requests |-> reqs]
Raised(reqs) == [raised |-> TRUE, value |-> "none", requests |-> reqs]

NoBody == [kind |-> "none"]
PlainResponses ==
    { [net |-> "error", status |-> 0, body |-> NoBody],
      [net |-> "ok", status |-> 200, body |-> NoBody],
      [net |-> "ok", status |-> 404, body |-> NoBody],
      [net |-> "ok", status |-> 500, body |-> NoBody] }

-----------------------------------------------------------------------------
(* initialize (hybrid adapter) *)

\* an initialize that takes any answer of the probe for availability
InitializeAnyAnswer(health, init) ==
    LET probe == [path |-> "/api/plugins/similharity/health"]
        setup == [path |-> "/api/plugins/similharity/backend/init/vectra"]
    IN IF health.net = "error" THEN [pluginAvailable |-> FALSE, requests |-> <<probe>>]
       ELSE IF init.net = "error" THEN [pluginAvailable |-> FALSE, requests |-> <<probe, setup>>]
       ELSE [pluginAvailable |-> TRUE, requests |-> <<probe, setup>>]

Standard_initialize(health, init) ==
    LET probe == [path |-> "/api/plugins/similharity/health"]
        setup == [path |-> "/api/plugins/similharity/backend/init/vectra"]
    IN IF health.net = "error" THEN [pluginAvailable |-> FALSE, requests |-> <<probe>>]
       ELSE IF ~ResponseOk(health) THEN [pluginAvailable |-> FALSE, requests |-> <<probe>>]
       ELSE IF init.net = "error" THEN [pluginAvailable |-> FALSE, requests |-> <<probe, setup>>]
       ELSE [pluginAvailable |-> TRUE, requests |-> <<probe, setup>>]

-----------------------------------------------------------------------------
(* healthCheck *)

\* bodies of a health answer: unparsable, null, or an object whose `healthy`
\* is true, false, the string "yes", or absent
HealthBodies ==
    { [kind |-> "malformed", healthy |-> "undefined"],
      [kind |-> "null", healthy |-> "undefined"],
      [kind |-> "object", healthy |-> "true"],
      [kind |-> "object", healthy |-> "false"],
      [kind |-> "object", healthy |-> "yes"],
      [kind |-> "object", healthy |-> "undefined"] }

HealthResponses ==
    {[net |-> "error", status |-> 0, body |-> [kind |-> "malformed", healthy |-> "undefined"]]}
        \cup [net : {"ok"}, status : {200, 404, 500}, body : HealthBodies]

Bool(b) == IF b THEN "true" ELSE "false"

Standard_healthCheck(response) ==
    LET req == [path |-> "/api/vector/list",
                collectionId |-> Str(<<"__vecthare_health_check__">>),
                source |-> "transformers"]
    IN IF response.net = "error" THEN Returned("false", <<req>>)
       ELSE Returned(Bool(response.status = 200 \/ response.status = 500), <<req>>)

\* the body of the plugin adapters' healthCheck inside its try block
PluginHealthTry(req, response) ==
    IF response.net = "error" THEN Raised(<<req>>)
    ELSE IF ~ResponseOk(response) THEN Returned("false", <<req>>)
    ELSE IF response.body.kind \in {"malformed", "null"} THEN Raised(<<req>>)
    ELSE Returned(Bool(response.body.healthy = "true"), <<req>>)

\* a healthCheck that returns data.healthy itself and has no catch
HealthUncaught(response) ==
    LET req == [path |-> "/api/plugins/similharity/backend/health/lancedb"]
    IN IF response.net = "error" THEN Raised(<<req>>)
       ELSE IF ~ResponseOk(response) THEN Returned("false", <<req>>)
       ELSE IF response.body.kind \in {"malformed", "null"} THEN Raised(<<req>>)
       ELSE Returned(response.body.healthy, <<req>>)

LanceDB_healthCheck(response) ==
    LET req == [path |-> "/api/plugins/similharity/backend/health/lancedb"]
        try == PluginHealthTry(req, response)
    IN IF try.raised THEN Returned("false", <<req>>) ELSE try

Qdrant_healthCheck(response) ==
    LET req == [path |-> "/api/plugins/similharity/backend/health/qdrant"]
        try == PluginHealthTry(req, response)
    IN IF try.raised THEN Returned("false", <<req>>) ELSE try

Milvus_healthCheck(response) ==
    LET req == [path |-> "/api/plugins/similharity/backend/health/milvus"]
        try == PluginHealthTry(req, response)
    IN IF try.raised THEN Returned("false", <<req>>) ELSE try

healthCheck(b, response) ==
    CASE b = "standard" -> Standard_healthCheck(response)
      [] b = "lancedb" -> LanceDB_healthCheck(response)
      [] b = "qdrant" -> Qdrant_healthCheck(response)
      [] b = "milvus" -> Milvus_healthCheck(response)

-----------------------------------------------------------------------------
(* Collections, hashes and items *)

IdA == Str(<<"vh", ":", "chat", ":", "abc">>)
IdB == Str(<<"vh", ":", "doc", ":", "abc">>)
IdC == Str(<<"abc">>)
CollectionIds == {IdA, IdB, IdC}

Hashes == {"h1", "h2"}
Texts == {"t1", "t2"}

\* an item's metadata bag: absent, or an object; of the domain fields the
\* adapters name (importance, keywords, customWeights, ...) two are kept,
\* and `note` is a key of the bag the adapters do not name; "undefined" is
\* an absent key
NoBag == [def |-> FALSE, importance |-> "undefined", keywords |-> "undefined",
          note |-> "undefined"]

\* a vector item: `metadata` is its bag, `importance` and `keywords` its own
\* top-level fields; `vector` is "undefined" when the item carries no
\* pre-computed embedding
Items ==
    [hash : Hashes, text : Texts, index : {NoNum}, vector : {"undefined", "v1"},
     metadata : {NoBag}, importance : {"undefined"}, keywords : {"undefined"}]

\* the common fields of a request body; `filters` is NoFilters and `backend`
\* is "none" where the body has no such field, `model` is "" where it has none
Body(path, b, id, filters, source, model) ==
    [path |-> path, backend |-> b, collectionId |-> id, filters |-> filters,
     source |-> source, model |-> model]

-----------------------------------------------------------------------------
(* getSavedHashes *)

\* bodies of a list answer: unparsable, null, a bare array of hashes (the
\* native shape), an object with `items` (the plugin shape), an object without
ListBodies ==
    [kind : {"malformed", "null", "object"}, hashes : {<<>>}]
        \cup [kind : {"array", "items"}, hashes : {<<>>, <<"h1">>, <<"h2", "h1">>}]

ListResponses ==
    {[net |-> "error", status |-> 0, body |-> [kind |-> "malformed", hashes |-> <<>>]]}
        \cup [net : {"ok"}, status : {200}, body : ListBodies]
        \cup [net : {"ok"}, status : {404, 500}, body : {[kind |-> "malformed", hashes |-> <<>>]}]

Standard_getSavedHashes(id, settings, response) ==
    LET req == Body("/api/vector/list", "none", id, NoFilters, SourceOf(settings),
                    getModelFromSettings(settings))
                 @@ [params |-> getProviderSpecificParams(settings, FALSE)]
    IN IF response.net = "error" THEN Raised(<<req>>)
       ELSE IF ~ResponseOk(response)
            THEN IF response.status = 500 THEN Returned(<<>>, <<req>>) ELSE Raised(<<req>>)
       ELSE IF response.body.kind = "malformed" THEN Raised(<<req>>)
       ELSE IF response.body.kind = "array" THEN Returned(response.body.hashes, <<req>>)
       ELSE Returned(<<>>, <<req>>)

\* what the plugin adapters do with the answer of /chunks/list
PluginSavedHashes(req, response) ==
    IF response.net = "error" THEN Raised(<<req>>)
    ELSE IF ~ResponseOk(response) THEN Raised(<<req>>)
    ELSE IF response.body.kind \in {"malformed", "null"} THEN Raised(<<req>>)
    ELSE IF response.body.kind = "items" THEN Returned(response.body.hashes, <<req>>)
    ELSE Returned(<<>>, <<req>>)

LanceDB_getSavedHashes(id, settings, response) ==
    PluginSavedHashes(
        Body("/api/plugins/similharity/chunks/list", "lancedb", id, NoFilters,
             SourceOf(settings), getModelFromSettings(settings)),
        response)

Qdrant_getSavedHashes(id, settings, response) ==
    LET tenant == Qdrant_parseCollectionId(id)
    IN PluginSavedHashes(
           Body("/api/plugins/similharity/chunks/list", "qdrant", VecthareMain,
                Filters(tenant), SourceOf(settings), getModelFromSettings(settings)),
           response)

Milvus_getSavedHashes(id, settings, response) ==
    LET tenant == Milvus_parseCollectionId(id)
    IN PluginSavedHashes(
           Body("/api/plugins/similharity/chunks/list", "milvus", VecthareMain,
                Filters(tenant), SourceOf(settings), getModelFromSettings(settings)),
           response)

getSavedHashes(b, id, settings, response) ==
    CASE b = "standard" -> Standard_getSavedHashes(id, settings, response)
      [] b = "lancedb" -> LanceDB_getSavedHashes(id, settings, response)
      [] b = "qdrant" -> Qdrant_getSavedHashes(id, settings, response)
      [] b = "milvus" -> Milvus_getSavedHashes(id, settings, response)

-----------------------------------------------------------------------------
(* insertVectorItems *)

\* Object.fromEntries(items.map(i => [i.text, i.vector])): one key per text,
\* the last item with that text wins; a key whose value is "undefined" is
\* dropped when the body is serialized
FromEntries(items) ==
    [t \in {items[i].text : i \in 1..Len(items)} |->
        LET last == CHOOSE i \in 1..Len(items) :
                        /\ items[i].text = t
                        /\ \A j \in (i + 1)..Len(items) : items[j].text # t
        IN items[last].vector]

NoEmbeddings == [present |-> FALSE, map |-> <<>>]

\* items[0]?.vector ? Object.fromEntries(...) : undefined
Standard_embeddings(items) ==
    IF Len(items) > 0 /\ items[1].vector # "undefined"
    THEN [present |-> TRUE, map |-> FromEntries(items)]
    ELSE NoEmbeddings

\* index: item.index ?? 0
Standard_insertItem(item) ==
    [hash |-> item.hash, text |-> item.text,
     index |-> IF item.index.def THEN item.index.n ELSE 0]

\* { hash, text, index, vector, metadata: item.metadata || {} } of LanceDB
Plugin_insertItem(item) ==
    [hash |-> item.hash, text |-> item.text, index |-> item.index, vector |-> item.vector,
     metadata |-> [importance |-> item.metadata.importance,
                   keywords |-> item.metadata.keywords,
                   note |-> item.metadata.note]]

\* { hash, text, index, vector, metadata: { ...item.metadata, importance:
\* item.importance, keywords: item.keywords, ... } } of Qdrant and Milvus:
\* the named keys are set after the spread, and a key set to undefined is
\* dropped when the body is serialized
Tenant_insertItem(item) ==
    [hash |-> item.hash, text |-> item.text, index |-> item.index, vector |-> item.vector,
     metadata |-> [importance |-> item.importance,
                   keywords |-> item.keywords,
                   note |-> item.metadata.note]]

\* a send that tries once more when the request failed
SendRetried(req, response) ==
    IF response.net = "error" THEN Raised(<<req, req>>)
    ELSE IF ~ResponseOk(response) THEN Raised(<<req, req>>)
    ELSE Returned("undefined", <<req>>)

\* the answer to a request whose body the adapter does not read
SendRequired(req, response) ==
    IF response.net = "error" THEN Raised(<<req>>)
    ELSE IF ~ResponseOk(response) THEN Raised(<<req>>)
    ELSE Returned("undefined", <<req>>)

\* an insertVectorItems that sends the request even for an empty item list
InsertUnguarded(id, items, settings, response) ==
    SendRequired(
        Body("/api/plugins/similharity/chunks/insert", "lancedb", id, NoFilters,
             SourceOf(settings), getModelFromSettings(settings))
          @@ [items |-> [i \in 1..Len(items) |-> Plugin_insertItem(items[i])],
              params |-> getProviderSpecificParams(settings, FALSE)],
        response)

Standard_insertVectorItems(id, items, settings, response) ==
    IF Len(items) = 0 THEN Returned("undefined", <<>>)
    ELSE SendRequired(
             Body("/api/vector/insert", "none", id, NoFilters, SourceOf(settings),
                  getModelFromSettings(settings))
               @@ [items |-> [i \in 1..Len(items) |-> Standard_insertItem(items[i])],
                   embeddings |-> Standard_embeddings(items),
                   params |-> getProviderSpecificParams(settings, FALSE)],
             response)

LanceDB_insertVectorItems(id, items, settings, response) ==
    IF Len(items) = 0 THEN Returned("undefined", <<>>)
    ELSE SendRequired(
             Body("/api/plugins/similharity/chunks/insert", "lancedb", id, NoFilters,
                  SourceOf(settings), getModelFromSettings(settings))
               @@ [items |-> [i \in 1..Len(items) |-> Plugin_insertItem(items[i])],
                   params |-> getProviderSpecificParams(settings, FALSE)],
             response)

Qdrant_insertVectorItems(id, items, settings, response) ==
    IF Len(items) = 0 THEN Returned("undefined", <<>>)
    ELSE SendRequired(
             Body("/api/plugins/similharity/chunks/insert", "qdrant", VecthareMain,
                  Filters(Qdrant_parseCollectionId(id)), SourceOf(settings),
                  getModelFromSettings(settings))
               @@ [items |-> [i \in 1..Len(items) |-> Tenant_insertItem(items[i])],
                   params |-> getProviderSpecificParams(settings, FALSE)],
             response)

Milvus_insertVectorItems(id, items, settings, response) ==
    IF Len(items) = 0 THEN Returned("undefined", <<>>)
    ELSE SendRequired(
             Body("/api/plugins/similharity/chunks/insert", "milvus", VecthareMain,
                  Filters(Milvus_parseCollectionId(id)), SourceOf(settings),
                  getModelFromSettings(settings))
               @@ [items |-> [i \in 1..Len(items) |-> Tenant_insertItem(items[i])],
                   params |-> getProviderSpecificParams(settings, FALSE)],
             response)

insertVectorItems(b, id, items, settings, response) ==
    CASE b = "standard" -> Standard_insertVectorItems(id, items, settings, response)
      [] b = "lancedb" -> LanceDB_insertVectorItems(id, items, settings, response)
      [] b = "qdrant" -> Qdrant_insertVectorItems(id, items, settings, response)
      [] b = "milvus" -> Milvus_insertVectorItems(id, items, settings, response)

-----------------------------------------------------------------------------
(* deleteVectorItems *)

\* a hybrid delete that goes through the plugin
DeleteThroughPlugin(id, hashes, settings, response) ==
    SendRequired(
        Body("/api/plugins/similharity/chunks/delete", "vectra", id, NoFilters,
             SourceOf(settings), "")
          @@ [hashes |-> hashes],
        response)

\* the native delete body has collectionId, hashes and source, and no model
Standard_deleteVectorItems(id, hashes, settings, response) ==
    SendRequired(
        Body("/api/vector/delete", "none", id, NoFilters, SourceOf(settings), "")
          @@ [hashes |-> hashes],
        response)

LanceDB_deleteVectorItems(id, hashes, settings, response) ==
    SendRequired(
        Body("/api/plugins/similharity/chunks/delete", "lancedb", id, NoFilters,
             SourceOf(settings), getModelFromSettings(settings))
          @@ [hashes |-> hashes],
        response)

Qdrant_deleteVectorItems(id, hashes, settings, response) ==
    SendRequired(
        Body("/api/plugins/similharity/chunks/delete", "qdrant", VecthareMain,
             Filters(Qdrant_parseCollectionId(id)), SourceOf(settings),
             getModelFromSettings(settings))
          @@ [hashes |-> hashes],
        response)

Milvus_deleteVectorItems(id, hashes, settings, response) ==
    SendRequired(
        Body("/api/plugins/similharity/chunks/delete", "milvus", VecthareMain,
             Filters(Milvus_parseCollectionId(id)), SourceOf(settings),
             getModelFromSettings(settings))
          @@ [hashes |-> hashes],
        response)

deleteVectorItems(b, id, hashes, settings, response) ==
    CASE b = "standard" -> Standard_deleteVectorItems(id, hashes, settings, response)
      [] b = "lancedb" -> LanceDB_deleteVectorItems(id, hashes, settings, response)
      [] b = "qdrant" -> Qdrant_deleteVectorItems(id, hashes, settings, response)
      [] b = "milvus" -> Milvus_deleteVectorItems(id, hashes, settings, response)

-----------------------------------------------------------------------------
(* MilvusBackend.initialize and _autoDetectDimensions *)

MaxDimLen == 2

DimChars == {"0", "1", "a", "."}
Digits == {"0", "1"}

RECURSIVE CharSeqs(_)
CharSeqs(n) ==
    IF n = 0 THEN {<<>>}
    ELSE CharSeqs(n - 1)
            \cup {Append(q, c) : q \in {x \in CharSeqs(n - 1) : Len(x) = n - 1}, c \in DimChars}

\* the values of settings.milvus_dimensions: absent, a number (given by its
\* decimal text: 0, 1, 10, 1.1, 0.1), or a string
DimensionValues ==
    {[kind |-> "undefined", text |-> <<>>]}
        \cup [kind : {"number"},
              text : {<<"0">>, <<"1">>, <<"1", "0">>, <<"1", ".", "1">>, <<"0", ".", "1">>}]
        \cup [kind : {"string"}, text : CharSeqs(MaxDimLen)]

\* JavaScript truthiness of the value: 0 and '' are falsy
DimTruthy(v) ==
    CASE v.kind = "undefined" -> FALSE
      [] v.kind = "number" -> v.text # <<"0">>
      [] v.kind = "string" -> v.text # <<>>

\* the longest prefix of digits
RECURSIVE DigitPrefix(_)
DigitPrefix(text) ==
    IF text = <<>> \/ Head(text) \notin Digits THEN <<>>
    ELSE <<Head(text)>> \o DigitPrefix(Tail(text))

RECURSIVE DigitsValue(_)
DigitsValue(digits) ==
    IF digits = <<>> THEN 0
    ELSE 10 * DigitsValue(SubSeq(digits, 1, Len(digits) - 1))
            + (IF digits[Len(digits)] = "1" THEN 1 ELSE 0)

\* parseInt(v): the number read from the leading digits of the value's text,
\* NaN (here NoNum) when there is none
ParseInt(v) ==
    IF DigitPrefix(v.text) = <<>> THEN NoNum ELSE Num(DigitsValue(DigitPrefix(v.text)))

\* bodies of the answer to the test embedding: unparsable, null, or an object
\* with `success` and an `embedding` that is absent, a string, or an array of
\* `length` numbers
EmbeddingBodies ==
    [kind : {"malformed", "null"}, success : {FALSE}, embedding : {"undefined"}, length : {0}]
        \cup [kind : {"object"}, success : BOOLEAN, embedding : {"undefined", "string"},
              length : {0}]
        \cup [kind : {"object"}, success : BOOLEAN, embedding : {"array"}, length : {0, 3}]

EmbeddingResponses ==
    {[net |-> "error", status |-> 0,
      body |-> [kind |-> "malformed", success |-> FALSE, embedding |-> "undefined", length |-> 0]]}
        \cup [net : {"ok"}, status : {200}, body : EmbeddingBodies]
        \cup [net : {"ok"}, status : {500},
              body : {[kind |-> "malformed", success |-> FALSE, embedding |-> "undefined",
                       length |-> 0]}]

\* returns the length of the test embedding, or null (NoNum)
Milvus_autoDetectDimensions(settings, response) ==
    LET req == [path |-> "/api/plugins/similharity/get-embedding", text |-> "test",
                source |-> SourceOf(settings), model |-> getModelFromSettings(settings)]
    IN IF /\ response.net = "ok"
          /\ ResponseOk(response)
          /\ response.body.kind = "object"
          /\ response.body.success
          /\ response.body.embedding = "array"
       THEN Returned(Num(response.body.length), <<req>>)
       ELSE Returned(NoNum, <<req>>)

\* an initialize that lets the failure of the detection escape
InitializeDetectUncaught(settings, dims, detect, init) ==
    LET manual == IF DimTruthy(dims) THEN ParseInt(dims) ELSE NoNum
        detected == Milvus_autoDetectDimensions(settings, detect)
        setup == [path |-> "/api/plugins/similharity/backend/init/milvus",
                  dimensions |-> IF OrZero(manual) # 0 THEN manual ELSE detected.value]
    IN IF OrZero(manual) = 0 /\ ~detected.value.def THEN Raised(detected.requests)
       ELSE IF OrZero(manual) # 0 THEN SendRequired(setup, init)
       ELSE [SendRequired(setup, init) EXCEPT !.requests = detected.requests \o @]

\* `dims` is settings.milvus_dimensions; of the config sent to the plugin only
\* `dimensions` is kept, the other fields are copied from the settings
Milvus_initialize(settings, dims, detect, init) ==
    LET manual == IF DimTruthy(dims) THEN ParseInt(dims) ELSE NoNum
        detected == Milvus_autoDetectDimensions(settings, detect)
        setup == [path |-> "/api/plugins/similharity/backend/init/milvus",
                  dimensions |-> IF OrZero(manual) # 0 THEN manual ELSE detected.value]
    IN IF OrZero(manual) # 0 THEN SendRequired(setup, init)
       ELSE [SendRequired(setup, init) EXCEPT !.requests = detected.requests \o @]

-----------------------------------------------------------------------------
(* purgeVectorIndex and purgeAllVectorIndexes (multitenant adapters) *)

\* a purge of the shared collection that names no tenant
PurgeUnfiltered(id, settings, response) ==
    SendRequired(
        Body("/api/plugins/similharity/chunks/purge", "qdrant", VecthareMain, NoFilters,
             SourceOf(settings), getModelFromSettings(settings)),
        response)

Qdrant_purgeVectorIndex(id, settings, response) ==
    SendRequired(
        Body("/api/plugins/similharity/chunks/purge", "qdrant", VecthareMain,
             Filters(Qdrant_parseCollectionId(id)), SourceOf(settings),
             getModelFromSettings(settings)),
        response)

Milvus_purgeVectorIndex(id, settings, response) ==
    SendRequired(
        Body("/api/plugins/similharity/chunks/purge", "milvus", VecthareMain,
             Filters(Milvus_parseCollectionId(id)), SourceOf(settings),
             getModelFromSettings(settings)),
        response)

\* a purge-all that purges the caller's provider and model only
PurgeAllOfProvider(settings, response) ==
    SendRequired(
        Body("/api/plugins/similharity/chunks/purge", "qdrant", VecthareMain,
             [present |-> TRUE, type |-> JsUndefined, sourceId |-> JsUndefined],
             SourceOf(settings), getModelFromSettings(settings)),
        response)

\* the body names no filters: "No filters = purge everything"
Qdrant_purgeAllVectorIndexes(settings, response) ==
    SendRequired(
        Body("/api/plugins/similharity/chunks/purge", "qdrant", VecthareMain, NoFilters,
             SourceOf(settings), getModelFromSettings(settings)),
        response)

Milvus_purgeAllVectorIndexes(settings, response) ==
    SendRequired(
        Body("/api/plugins/similharity/chunks/purge", "milvus", VecthareMain, NoFilters,
             SourceOf(settings), getModelFromSettings(settings)),
        response)

-----------------------------------------------------------------------------
(* purgeVectorIndex and purgeAllVectorIndexes (StandardBackend, LanceDB) *)

Standard_purgeVectorIndex(id, settings, response) ==
    SendRequired([path |-> "/api/vector/purge", collectionId |-> id], response)

Standard_purgeAllVectorIndexes(settings, response) ==
    SendRequired([path |-> "/api/vector/purge-all"], response)

LanceDB_purgeVectorIndex(id, settings, response) ==
    SendRequired(
        Body("/api/plugins/similharity/chunks/purge", "lancedb", id, NoFilters,
             SourceOf(settings), getModelFromSettings(settings)),
        response)

\* entries of the `collections` array the plugin answers with
Discovered == [id : {IdA, IdC}, source : {"undefined", "cohere"}]

DiscoveredLists ==
    {<<>>} \cup {<<c>> : c \in Discovered}
        \cup {<<c, d>> : c \in Discovered, d \in {x \in Discovered : x.source = "cohere"}}

\* bodies of the answer to GET /collections: unparsable, null, an object
\* without `collections`, or an object with the array
CollectionsBodies ==
    [kind : {"malformed", "null", "object"}, collections : {<<>>}]
        \cup [kind : {"listed"}, collections : DiscoveredLists]

CollectionsResponses ==
    {[net |-> "error", status |-> 0, body |-> [kind |-> "malformed", collections |-> <<>>]]}
        \cup [net : {"ok"}, status : {200}, body : CollectionsBodies]
        \cup [net : {"ok"}, status : {500},
              body : {[kind |-> "malformed", collections |-> <<>>]}]

\* this.purgeVectorIndex(collection.id, {...settings, source: collection.source})
PurgeOfDiscovered(c, settings, response) ==
    LanceDB_purgeVectorIndex(c.id, [settings EXCEPT !.source = c.source], response)

\* the purges sent for the first n discovered collections
PurgesSent(collections, settings, per, n) ==
    [i \in 1..n |-> PurgeOfDiscovered(collections[i], settings, per[i]).requests[1]]

\* a purge-all whose loop lets the failure of one purge escape
PurgeAllUncaught(settings, listing, per) ==
    LET req == [path |-> "/api/plugins/similharity/collections"]
        collections == listing.body.collections
        failing == {i \in 1..Len(collections) :
                       PurgeOfDiscovered(collections[i], settings, per[i]).raised}
        first == CHOOSE i \in failing : \A j \in failing : i <= j
    IN IF listing.net = "error" THEN Raised(<<req>>)
       ELSE IF ~ResponseOk(listing) THEN Raised(<<req>>)
       ELSE IF listing.body.kind \in {"malformed", "null"} THEN Raised(<<req>>)
       ELSE IF failing # {}
            THEN Raised(<<req>> \o PurgesSent(collections, settings, per, first))
       ELSE Returned("undefined",
                     <<req>> \o PurgesSent(collections, settings, per, Len(collections)))

\* listing answers GET /collections; per[i] answers the purge of the i-th
\* discovered collection
LanceDB_purgeAllVectorIndexes(settings, listing, per) ==
    LET req == [path |-> "/api/plugins/similharity/collections"]
        collections == listing.body.collections
    IN IF listing.net = "error" THEN Raised(<<req>>)
       ELSE IF ~ResponseOk(listing) THEN Raised(<<req>>)
       ELSE IF listing.body.kind \in {"malformed", "null"} THEN Raised(<<req>>)
       ELSE Returned("undefined",
                     <<req>> \o PurgesSent(collections, settings, per, Len(collections)))

-----------------------------------------------------------------------------
(* Extended operations of the plugin adapters.  LanceDBBackend,            *)
(* QdrantBackend and MilvusBackend have the same code but for the          *)
(* collection named and the filters attached.                              *)

\* bodies of an answer to an extended operation: unparsable, null, or an
\* object whose field of interest (chunk, stats) is `value`
ExtBodies == [kind : {"malformed", "null", "object"}, value : {"undefined", "x"}]

ExtResponses ==
    {[net |-> "error", status |-> 0, body |-> [kind |-> "malformed", value |-> "undefined"]]}
        \cup [net : {"ok"}, status : {200}, body : ExtBodies]
        \cup [net : {"ok"}, status : {404, 500},
              body : {[kind |-> "malformed", value |-> "undefined"]}]

\* the options of listChunks: absent, or given
ListOptions ==
    { [offset |-> NoNum, limit |-> NoNum, includeVectors |-> FALSE],
      [offset |-> Num(1), limit |-> Num(1), includeVectors |-> TRUE] }

\* offset: options.offset || 0, limit: options.limit || 100,
\* includeVectors: options.includeVectors || false
PageFields(options) ==
    [offset |-> OrZero(options.offset),
     limit |-> IF OrZero(options.limit) = 0 THEN 100 ELSE options.limit.n,
     includeVectors |-> options.includeVectors]

\* collectionId of a plugin request: the id itself, or the shared collection
PluginCollection(b, id) == IF b \in Multitenant THEN VecthareMain ELSE id

\* filters of a plugin request body: none, or the decoded tenant
PluginFilters(b, id) ==
    IF b \in Multitenant THEN Filters(ParseCollectionId(b, id)) ELSE NoFilters

\* `return await response.json()` after `if (!response.ok) throw`
SendForJson(req, response) ==
    IF response.net = "error" THEN Raised(<<req>>)
    ELSE IF ~ResponseOk(response) THEN Raised(<<req>>)
    ELSE IF response.body.kind = "malformed" THEN Raised(<<req>>)
    ELSE Returned(response.body, <<req>>)

\* `const data = await response.json(); return data.<field>` after the
\* status test
SendForField(req, response) ==
    IF response.net = "error" THEN Raised(<<req>>)
    ELSE IF ~ResponseOk(response) THEN Raised(<<req>>)
    ELSE IF response.body.kind \in {"malformed", "null"} THEN Raised(<<req>>)
    ELSE Returned(response.body.value, <<req>>)

\* the query string has backend, collectionId, source and model, and no filters
Plugin_getChunk(b, id, hash, settings, response) ==
    LET req == Body("/api/plugins/similharity/chunks/", b, PluginCollection(b, id),
                    NoFilters, SourceOf(settings), getModelFromSettings(settings))
                 @@ [hash |-> hash]
    IN IF response.net = "ok" /\ response.status = 404 THEN Returned("null", <<req>>)
       ELSE SendForField(req, response)

Plugin_listChunks(b, id, settings, options, response) ==
    SendForJson(
        Body("/api/plugins/similharity/chunks/list", b, PluginCollection(b, id),
             PluginFilters(b, id), SourceOf(settings), getModelFromSettings(settings))
          @@ PageFields(options),
        response)

Plugin_updateChunkText(b, id, hash, newText, settings, response) ==
    SendForJson(
        Body("/api/plugins/similharity/chunks/text", b, PluginCollection(b, id),
             PluginFilters(b, id), SourceOf(settings), getModelFromSettings(settings))
          @@ [hash |-> hash, text |-> newText],
        response)

Plugin_updateChunkMetadata(b, id, hash, metadata, settings, response) ==
    SendForJson(
        Body("/api/plugins/similharity/chunks/metadata", b, PluginCollection(b, id),
             PluginFilters(b, id), SourceOf(settings), getModelFromSettings(settings))
          @@ [hash |-> hash, metadata |-> metadata],
        response)

Plugin_getStats(b, id, settings, response) ==
    SendForField(
        Body("/api/plugins/similharity/chunks/stats", b, PluginCollection(b, id),
             PluginFilters(b, id), SourceOf(settings), getModelFromSettings(settings)),
        response)

-----------------------------------------------------------------------------
(* Extended operations of StandardBackend: through the plugin when it is   *)
(* available, with a native fallback or none.  `available` is              *)
(* this.pluginAvailable.                                                   *)

\* throw new Error('Chunk ... editing requires the Similharity plugin')
CapabilityUnavailable ==
    [raised |-> TRUE, value |-> "CapabilityUnavailable", requests |-> <<>>]

\* hashes.map(hash => ({ hash, text: '', metadata: {} }))
HashItems(hashes) ==
    [i \in 1..Len(hashes) |-> [hash |-> hashes[i], text |-> "", metadata |-> "{}"]]

\* the plugin's answer is used when it is ok and parses
PluginAnswered(response) ==
    response.net = "ok" /\ ResponseOk(response) /\ response.body.kind # "malformed"

\* a listChunks that asks the plugin whether or not it is available
ListChunksAlwaysPlugin(available, id, settings, options, plugin, list) ==
    LET req == Body("/api/plugins/similharity/chunks/list", "vectra", id, NoFilters,
                    SourceOf(settings), getModelFromSettings(settings))
                 @@ PageFields(options)
        native == Standard_getSavedHashes(id, settings, list)
    IN IF PluginAnswered(plugin) THEN Returned(plugin.body, <<req>>)
       ELSE IF native.raised THEN Raised(<<req>> \o native.requests)
       ELSE Returned([items |-> HashItems(native.value), total |-> Len(native.value)],
                     <<req>> \o native.requests)

Standard_listChunks(available, id, settings, options, plugin, list) ==
    LET req == Body("/api/plugins/similharity/chunks/list", "vectra", id, NoFilters,
                    SourceOf(settings), getModelFromSettings(settings))
                 @@ PageFields(options)
        asked == IF available THEN <<req>> ELSE <<>>
        native == Standard_getSavedHashes(id, settings, list)
    IN IF available /\ PluginAnswered(plugin) THEN Returned(plugin.body, asked)
       ELSE IF native.raised THEN Raised(asked \o native.requests)
       ELSE Returned([items |-> HashItems(native.value), total |-> Len(native.value)],
                     asked \o native.requests)

\* a getChunk that asks the plugin whether or not it is available
GetChunkAlwaysPlugin(available, id, hash, settings, response) ==
    LET req == Body("/api/plugins/similharity/chunks/", "vectra", id, NoFilters,
                    SourceOf(settings), getModelFromSettings(settings))
                 @@ [hash |-> hash]
    IN IF PluginAnswered(response) /\ response.body.kind = "object"
       THEN Returned(response.body.value, <<req>>)
       ELSE Returned("null", <<req>>)

Standard_getChunk(available, id, hash, settings, response) ==
    LET req == Body("/api/plugins/similharity/chunks/", "vectra", id, NoFilters,
                    SourceOf(settings), getModelFromSettings(settings))
                 @@ [hash |-> hash]
    IN IF ~available THEN Returned("null", <<>>)
       ELSE IF PluginAnswered(response) /\ response.body.kind = "object"
            THEN Returned(response.body.value, <<req>>)
       ELSE Returned("null", <<req>>)

Standard_updateChunkText(available, id, hash, newText, settings, response) ==
    IF ~available THEN CapabilityUnavailable
    ELSE SendForJson(
             Body("/api/plugins/similharity/chunks/text", "vectra", id, NoFilters,
                  SourceOf(settings), getModelFromSettings(settings))
               @@ [hash |-> hash, text |-> newText],
             response)

Standard_updateChunkMetadata(available, id, hash, metadata, settings, response) ==
    IF ~available THEN CapabilityUnavailable
    ELSE SendForJson(
             Body("/api/plugins/similharity/chunks/metadata", "vectra", id, NoFilters,
                  SourceOf(settings), getModelFromSettings(settings))
               @@ [hash |-> hash, metadata |-> metadata],
             response)

Standard_getStats(available, id, settings, plugin, list) ==
    LET req == Body("/api/plugins/similharity/chunks/stats", "vectra", id, NoFilters,
                    SourceOf(settings), getModelFromSettings(settings))
        asked == IF available THEN <<req>> ELSE <<>>
        native == Standard_getSavedHashes(id, settings, list)
    IN IF available /\ PluginAnswered(plugin) /\ plugin.body.kind = "object"
       THEN Returned(plugin.body.value, asked)
       ELSE IF native.raised THEN Raised(asked \o native.requests)
       ELSE Returned([count |-> Len(native.value), source |-> "native"],
                     asked \o native.requests)

\* (data.collections || []).map(...): `value` stands for data.collections
Standard_discoverCollections(available, response) ==
    LET req == [path |-> "/api/plugins/similharity/collections"]
    IN IF ~available THEN Returned("null", <<>>)
       ELSE IF PluginAnswered(response) /\ response.body.kind = "object"
            THEN Returned(IF response.body.value = "undefined" THEN "[]" ELSE "collections",
                          <<req>>)
       ELSE Returned("null", <<req>>)

-----------------------------------------------------------------------------
(* Query results *)

\* one entry of a Query Result's metadata list
Entry(hash, text, score, extra) == [hash |-> hash, text |-> text, score |-> score, extra |-> extra]

QueryResult(hashes, metadata) == [hashes |-> hashes, metadata |-> metadata]
EmptyResult == QueryResult(<<>>, <<>>)

NoList == [def |-> FALSE, seq |-> <<>>]
List(seq) == [def |-> TRUE, seq |-> seq]

\* one element of `results` / `chunks` in a plugin answer: null, or an object
\* { hash, text, score, metadata } whose metadata may itself hold a hash
R1 == [kind |-> "object", hash |-> "h1", text |-> "t1", score |-> Num(90),
       metadata |-> [hash |-> "undefined", extra |-> "x"]]
R2 == [kind |-> "object", hash |-> "h2", text |-> "t2", score |-> Num(40),
       metadata |-> [hash |-> "h9", extra |-> "undefined"]]
RNull == [kind |-> "null", hash |-> "undefined", text |-> "undefined", score |-> NoNum,
          metadata |-> [hash |-> "undefined", extra |-> "undefined"]]

PluginQueryBodies ==
    { [kind |-> "malformed", results |-> NoList, chunks |-> NoList],
      [kind |-> "null", results |-> NoList, chunks |-> NoList],
      [kind |-> "object", results |-> NoList, chunks |-> NoList],
      [kind |-> "object", results |-> List(<<R1, R2>>), chunks |-> NoList],
      [kind |-> "object", results |-> NoList, chunks |-> List(<<R2>>)],
      [kind |-> "object", results |-> List(<<>>), chunks |-> List(<<R1>>)],
      [kind |-> "object", results |-> List(<<R1, RNull>>), chunks |-> NoList] }

PluginQueryResponses ==
    {[net |-> "error", status |-> 0, body |-> [kind |-> "malformed", results |-> NoList, chunks |-> NoList]]}
        \cup [net : {"ok"}, status : {200}, body : PluginQueryBodies]
        \cup [net : {"ok"}, status : {500},
              body : {[kind |-> "malformed", results |-> NoList, chunks |-> NoList]}]

\* { hash: r.hash, text: r.text, score: r.score, ...r.metadata }
Plugin_entry(r) ==
    Entry(IF r.metadata.hash # "undefined" THEN r.metadata.hash ELSE r.hash,
          r.text, r.score, r.metadata.extra)

\* resultArray.map(r => r.hash) and resultArray.map(r => ({...})): a TypeError
\* on a null element
Plugin_format(resultArray, reqs) ==
    IF \E i \in 1..Len(resultArray) : resultArray[i].kind = "null" THEN Raised(reqs)
    ELSE Returned(QueryResult([i \in 1..Len(resultArray) |-> resultArray[i].hash],
                              [i \in 1..Len(resultArray) |-> Plugin_entry(resultArray[i])]), reqs)

\* one element of `metadata` in a native answer: null, or an object with
\* optional hash, text and score fields of its own
M1 == [kind |-> "object", hash |-> "undefined", text |-> "t1", score |-> Num(90), extra |-> "x"]
M2 == [kind |-> "object", hash |-> "h9", text |-> "t2", score |-> NoNum, extra |-> "undefined"]
MNull == [kind |-> "null", hash |-> "undefined", text |-> "undefined", score |-> NoNum,
          extra |-> "undefined"]

Strings(seq) == [def |-> TRUE, seq |-> seq]
NoStrings == [def |-> FALSE, seq |-> <<>>]

NativeQueryBodies ==
    { [kind |-> "malformed", hashes |-> NoStrings, metadata |-> NoList],
      [kind |-> "null", hashes |-> NoStrings, metadata |-> NoList],
      [kind |-> "object", hashes |-> NoStrings, metadata |-> NoList],
      [kind |-> "object", hashes |-> Strings(<<"h1", "h2">>), metadata |-> List(<<M1, M2>>)],
      [kind |-> "object", hashes |-> Strings(<<"h2">>), metadata |-> NoList],
      [kind |-> "object", hashes |-> Strings(<<"h1">>), metadata |-> List(<<MNull>>)] }

NativeQueryResponses ==
    {[net |-> "error", status |-> 0, body |-> [kind |-> "malformed", hashes |-> NoStrings, metadata |-> NoList]]}
        \cup [net : {"ok"}, status : {200}, body : NativeQueryBodies]
        \cup [net : {"ok"}, status : {500},
              body : {[kind |-> "malformed", hashes |-> NoStrings, metadata |-> NoList]}]

\* { hash: data.hashes?.[idx], text: m.text, score: m.score || 0, ...m }
Standard_entry(data, m, idx) ==
    Entry(IF m.hash # "undefined" THEN m.hash
          ELSE IF data.hashes.def /\ idx \in 1..Len(data.hashes.seq) THEN data.hashes.seq[idx]
          ELSE "undefined",
          m.text,
          Num(IF m.score.def THEN m.score.n ELSE 0),
          m.extra)

\* { hashes: data.hashes || [], metadata: (data.metadata || []).map(...) }
Standard_format(data, reqs) ==
    LET hashes == IF data.hashes.def THEN data.hashes.seq ELSE <<>>
        metadata == IF data.metadata.def THEN data.metadata.seq ELSE <<>>
    IN IF \E i \in 1..Len(metadata) : metadata[i].kind = "null" THEN Raised(reqs)
       ELSE Returned(QueryResult(hashes,
                                 [i \in 1..Len(metadata) |-> Standard_entry(data, metadata[i], i)]),
                     reqs)

-----------------------------------------------------------------------------
(* queryCollection *)

\* requestBody.embeddings = { [searchText]: queryVector } when a vector is given
QueryEmbeddings(searchText, queryVector) ==
    IF queryVector # "null" THEN [present |-> TRUE, text |-> searchText, vector |-> queryVector]
    ELSE [present |-> FALSE, text |-> "undefined", vector |-> "undefined"]

\* the fields every query body carries besides the common ones
QueryFields(searchText, topK, threshold, settings, embeddings) ==
    [searchText |-> searchText, topK |-> topK, threshold |-> threshold,
     params |-> getProviderSpecificParams(settings, TRUE), embeddings |-> embeddings]

Standard_queryCollection(id, searchText, topK, settings, queryVector, response) ==
    LET req == Body("/api/vector/query", "none", id, NoFilters, SourceOf(settings),
                    getModelFromSettings(settings))
                 @@ QueryFields(searchText, topK, OrZero(settings.score_threshold), settings,
                                QueryEmbeddings(searchText, queryVector))
    IN IF response.net = "error" THEN Raised(<<req>>)
       ELSE IF ~ResponseOk(response) THEN Raised(<<req>>)
       ELSE IF response.body.kind \in {"malformed", "null"} THEN Raised(<<req>>)
       ELSE Standard_format(response.body, <<req>>)

\* what the plugin adapters' queryCollection does with the answer of
\* /chunks/query: data.results.map(...) with no default
PluginQuery(req, response) ==
    IF response.net = "error" THEN Raised(<<req>>)
    ELSE IF ~ResponseOk(response) THEN Raised(<<req>>)
    ELSE IF response.body.kind \in {"malformed", "null"} THEN Raised(<<req>>)
    ELSE IF ~response.body.results.def THEN Raised(<<req>>)
    ELSE Plugin_format(response.body.results.seq, <<req>>)

LanceDB_queryCollection(id, searchText, topK, settings, response) ==
    PluginQuery(
        Body("/api/plugins/similharity/chunks/query", "lancedb", id, NoFilters,
             SourceOf(settings), getModelFromSettings(settings))
          @@ QueryFields(searchText, topK, 0, settings, QueryEmbeddings(searchText, "null")),
        response)

Qdrant_queryCollection(id, searchText, topK, settings, response) ==
    PluginQuery(
        Body("/api/plugins/similharity/chunks/query", "qdrant", VecthareMain,
             Filters(Qdrant_parseCollectionId(id)), SourceOf(settings),
             getModelFromSettings(settings))
          @@ QueryFields(searchText, topK, 0, settings, QueryEmbeddings(searchText, "null")),
        response)

Milvus_queryCollection(id, searchText, topK, settings, response) ==
    PluginQuery(
        Body("/api/plugins/similharity/chunks/query", "milvus", VecthareMain,
             Filters(Milvus_parseCollectionId(id)), SourceOf(settings),
             getModelFromSettings(settings))
          @@ QueryFields(searchText, topK, 0, settings, QueryEmbeddings(searchText, "null")),
        response)

\* the plugin adapters declare no queryVector parameter: a fifth argument is ignored
queryCollection(b, id, searchText, topK, settings, queryVector, response) ==
    CASE b = "standard" ->
             Standard_queryCollection(id, searchText, topK, settings, queryVector, response)
      [] b = "lancedb" -> LanceDB_queryCollection(id, searchText, topK, settings, response)
      [] b = "qdrant" -> Qdrant_queryCollection(id, searchText, topK, settings, response)
      [] b = "milvus" -> Milvus_queryCollection(id, searchText, topK, settings, response)

-----------------------------------------------------------------------------
(* queryMultipleCollections *)

Range(seq) == {seq[i] : i \in 1..Len(seq)}

\* one value of the returned mapping: a Query Result, or something else
Populated(result) == [shape |-> "queryResult", result |-> result]
Misshapen == [shape |-> "other", result |-> EmptyResult]

\* the object the adapter builds: one key per collection id
ResultMap(map) == [kind |-> "object", map |-> map]

Q1 == QueryResult(<<"h1">>, <<Entry("h1", "t1", Num(90), "x")>>)

\* bodies of a native query-multi answer: unparsable, null, or an object with
\* any keys and values
MultiBodies ==
    { [kind |-> "malformed", map |-> [id \in {} |-> Misshapen]],
      [kind |-> "null", map |-> [id \in {} |-> Misshapen]],
      [kind |-> "object", map |-> [id \in {} |-> Misshapen]],
      [kind |-> "object", map |-> [id \in {IdA} |-> Populated(Q1)]],
      [kind |-> "object", map |-> [id \in CollectionIds |-> Populated(Q1)]],
      [kind |-> "object", map |-> [id \in CollectionIds |-> Misshapen]] }

MultiResponses ==
    {[net |-> "error", status |-> 0, body |-> [kind |-> "malformed", map |-> [id \in {} |-> Misshapen]]]}
        \cup [net : {"ok"}, status : {200}, body : MultiBodies]
        \cup [net : {"ok"}, status : {500},
              body : {[kind |-> "malformed", map |-> [id \in {} |-> Misshapen]]}]

NoDuplicates(l) == \A i, j \in 1..Len(l) : i # j => l[i] # l[j]

\* the duplicate-free lists of at most n collection ids
RECURSIVE IdLists(_)
IdLists(n) ==
    IF n = 0 THEN {<<>>}
    ELSE LET shorter == IdLists(n - 1)
             longer == {Append(l, id) : l \in {x \in shorter : Len(x) = n - 1},
                                        id \in CollectionIds}
         IN shorter \cup {l \in longer : NoDuplicates(l)}

Standard_queryMultipleCollections(ids, searchText, topK, threshold, settings, queryVector, multi, per) ==
    LET req == [path |-> "/api/vector/query-multi", backend |-> "none", collectionIds |-> ids,
                source |-> SourceOf(settings), model |-> getModelFromSettings(settings)]
                 @@ QueryFields(searchText, topK, threshold, settings,
                                QueryEmbeddings(searchText, queryVector))
        one(id) == Standard_queryCollection(id, searchText, topK, settings, queryVector, per[id])
    IN IF multi.net = "error" THEN Raised(<<req>>)
       ELSE IF ~ResponseOk(multi)
            THEN Returned(
                     ResultMap([id \in Range(ids) |->
                                   IF one(id).raised THEN Populated(EmptyResult)
                                   ELSE Populated(one(id).value)]),
                     <<req>> \o [i \in 1..Len(ids) |-> one(ids[i]).requests[1]])
       ELSE IF multi.body.kind = "malformed" THEN Raised(<<req>>)
       ELSE Returned([kind |-> multi.body.kind, map |-> multi.body.map], <<req>>)

\* the body of the per-collection try block of the plugin adapters
PluginQueryOne(req, response) ==
    IF response.net = "error" THEN Raised(<<req>>)
    ELSE IF ~ResponseOk(response) THEN Returned(EmptyResult, <<req>>)
    ELSE IF response.body.kind \in {"malformed", "null"} THEN Raised(<<req>>)
    ELSE Plugin_format(
             IF response.body.results.def THEN response.body.results.seq
             ELSE IF response.body.chunks.def THEN response.body.chunks.seq
             ELSE <<>>,
             <<req>>)

\* the loop of the plugin adapters: the request req[id] per id, a raise caught
\* per id
PluginQueryLoop(ids, req, per) ==
    Returned(
        ResultMap([id \in Range(ids) |->
                      IF PluginQueryOne(req[id], per[id]).raised THEN Populated(EmptyResult)
                      ELSE Populated(PluginQueryOne(req[id], per[id]).value)]),
        [i \in 1..Len(ids) |-> req[ids[i]]])

LanceDB_queryMultipleCollections(ids, searchText, topK, threshold, settings, per) ==
    LET Req(id) ==
            Body("/api/plugins/similharity/chunks/query", "lancedb", id, NoFilters,
                 SourceOf(settings), getModelFromSettings(settings))
              @@ QueryFields(searchText, topK, threshold, settings,
                             QueryEmbeddings(searchText, "null"))
    IN PluginQueryLoop(ids, [id \in Range(ids) |-> Req(id)], per)

Qdrant_queryMultipleCollections(ids, searchText, topK, threshold, settings, per) ==
    LET Req(id) ==
            Body("/api/plugins/similharity/chunks/query", "qdrant", VecthareMain,
                 Filters(Qdrant_parseCollectionId(id)), SourceOf(settings),
                 getModelFromSettings(settings))
              @@ QueryFields(searchText, topK, threshold, settings,
                             QueryEmbeddings(searchText, "null"))
    IN PluginQueryLoop(ids, [id \in Range(ids) |-> Req(id)], per)

Milvus_queryMultipleCollections(ids, searchText, topK, threshold, settings, per) ==
    LET Req(id) ==
            Body("/api/plugins/similharity/chunks/query", "milvus", VecthareMain,
                 Filters(Milvus_parseCollectionId(id)), SourceOf(settings),
                 getModelFromSettings(settings))
              @@ QueryFields(searchText, topK, threshold, settings,
                             QueryEmbeddings(searchText, "null"))
    IN PluginQueryLoop(ids, [id \in Range(ids) |-> Req(id)], per)

queryMultipleCollections(b, ids, searchText, topK, threshold, settings, queryVector, multi, per) ==
    CASE b = "standard" ->
             Standard_queryMultipleCollections(ids, searchText, topK, threshold, settings,
                                               queryVector, multi, per)
      [] b = "lancedb" ->
             LanceDB_queryMultipleCollections(ids, searchText, topK, threshold, settings, per)
      [] b = "qdrant" ->
             Qdrant_queryMultipleCollections(ids, searchText, topK, threshold, settings, per)
      [] b = "milvus" ->
             Milvus_queryMultipleCollections(ids, searchText, topK, threshold, settings, per)

-----------------------------------------------------------------------------
(* Specification of the adapters against a backend that may answer         *)
(* anything: one adapter instance, one operation per step.  `call` holds   *)
(* the operation's arguments, the answers the backend gave and the         *)
(* operation's outcome.                                                    *)

RECURSIVE ItemLists(_)
ItemLists(n) ==
    IF n = 0 THEN {<<>>}
    ELSE LET shorter == ItemLists(n - 1)
         IN shorter \cup {Append(l, it) : l \in {x \in shorter : Len(x) = n - 1}, it \in Items}

HashLists == {<<>>, <<"h1">>, <<"h2", "h1">>}
SearchTexts == {"q"}
TopKs == {5}
Thresholds == {30}
QueryVectors == {"null", "qv"}

QueryResponses(b) == IF b = "standard" THEN NativeQueryResponses ELSE PluginQueryResponses

\* the answer recorded for a request that is not sent
Unasked(responses) == CHOOSE r \in responses : r.net = "error"

Init ==
    /\ backend \in Adapters
    /\ pluginAvailable = FALSE
    /\ call = NoCall
    /\ store = {}
    /\ collectionId = IdA
    /\ parsed = NotParsed
    /\ host = DefaultHost
    /\ initializing = NotInitializing

Initialize ==
    /\ call = NoCall
    /\ backend = "standard"
    /\ \E health \in PlainResponses, init \in PlainResponses :
          /\ health.net = "error" \/ ~ResponseOk(health) => init = Unasked(PlainResponses)
          /\ pluginAvailable' = Standard_initialize(health, init).pluginAvailable
          /\ call' = [op |-> "initialize",
                      responses |-> <<health, init>>,
                      outcome |-> Returned("undefined", Standard_initialize(health, init).requests)]
    /\ UNCHANGED <<backend, store, collectionId, parsed, host, initializing>>

\* `detect` answers the test embedding, `init` the backend-init request
MilvusInitialize ==
    /\ call = NoCall
    /\ backend = "milvus"
    /\ \E settings \in SettingsSet, dims \in DimensionValues,
          detect \in EmbeddingResponses, init \in PlainResponses :
          /\ (DimTruthy(dims) /\ OrZero(ParseInt(dims)) # 0)
                => detect = Unasked(EmbeddingResponses)
          /\ call' = [op |-> "milvusInitialize",
                      settings |-> settings, dims |-> dims,
                      detect |-> detect, response |-> init,
                      outcome |-> Milvus_initialize(settings, dims, detect, init)]
    /\ UNCHANGED <<backend, pluginAvailable, store, collectionId, parsed, host, initializing>>

HealthCheck ==
    /\ call = NoCall
    /\ \E response \in HealthResponses :
          call' = [op |-> "healthCheck",
                   response |-> response,
                   outcome |-> healthCheck(backend, response)]
    /\ UNCHANGED <<backend, pluginAvailable, store, collectionId, parsed, host, initializing>>

\* `everCreated` is a fact of the backend: whether the collection was ever
\* created there; a collection never created has no hashes to list
GetSavedHashes ==
    /\ call = NoCall
    /\ \E id \in CollectionIds, settings \in SettingsSet, response \in ListResponses,
          everCreated \in BOOLEAN :
          /\ ~everCreated => response.body.hashes = <<>>
          /\ call' = [op |-> "getSavedHashes",
                      id |-> id, settings |-> settings, everCreated |-> everCreated,
                      response |-> response,
                      outcome |-> getSavedHashes(backend, id, settings, response)]
    /\ UNCHANGED <<backend, pluginAvailable, store, collectionId, parsed, host, initializing>>

\* items with a metadata bag and top-level domain fields
BagItems ==
    [hash : {"h1"}, text : {"t1"}, index : {NoNum}, vector : {"undefined"},
     metadata : {NoBag} \cup [def : {TRUE}, importance : {"undefined", "5"},
                              keywords : {"undefined", "k"}, note : {"undefined", "n"}],
     importance : {"undefined", "5", "7"}, keywords : {"undefined", "k"}]

\* the batches a caller inserts: lists of plain items, or one item with a bag
InsertBatches == ItemLists(MaxItems) \cup {<<it>> : it \in BagItems}

InsertVectorItems ==
    /\ call = NoCall
    /\ \E id \in CollectionIds, items \in InsertBatches, settings \in SettingsSet,
          response \in PlainResponses :
          /\ items = <<>> => response = Unasked(PlainResponses)
          /\ call' = [op |-> "insertVectorItems",
                      id |-> id, items |-> items, settings |-> settings,
                      response |-> response,
                      outcome |-> insertVectorItems(backend, id, items, settings, response)]
    /\ UNCHANGED <<backend, pluginAvailable, store, collectionId, parsed, host, initializing>>

DeleteVectorItems ==
    /\ call = NoCall
    /\ \E id \in CollectionIds, hashes \in HashLists, settings \in SettingsSet,
          response \in PlainResponses :
          call' = [op |-> "deleteVectorItems",
                   id |-> id, hashes |-> hashes, settings |-> settings,
                   response |-> response,
                   outcome |-> deleteVectorItems(backend, id, hashes, settings, response)]
    /\ UNCHANGED <<backend, pluginAvailable, store, collectionId, parsed, host, initializing>>

QueryCollection ==
    /\ call = NoCall
    /\ \E id \in CollectionIds, searchText \in SearchTexts, topK \in TopKs,
          settings \in SettingsSet, queryVector \in QueryVectors,
          response \in QueryResponses(backend) :
          call' = [op |-> "queryCollection",
                   id |-> id, searchText |-> searchText, topK |-> topK,
                   settings |-> settings, queryVector |-> queryVector,
                   response |-> response,
                   outcome |-> queryCollection(backend, id, searchText, topK, settings,
                                               queryVector, response)]
    /\ UNCHANGED <<backend, pluginAvailable, store, collectionId, parsed, host, initializing>>

\* `multi` answers the native query-multi request (hybrid adapter only);
\* per[id] answers the request made for collection id alone
QueryMultipleCollections ==
    /\ call = NoCall
    /\ \E ids \in IdLists(MaxIds), searchText \in SearchTexts, topK \in TopKs,
          threshold \in Thresholds, settings \in SettingsSet, queryVector \in QueryVectors,
          multi \in MultiResponses, per \in [CollectionIds -> QueryResponses(backend)] :
          /\ backend # "standard" => multi = Unasked(MultiResponses)
          /\ \A id \in CollectionIds :
                (id \notin Range(ids) \/ (backend = "standard" /\ (multi.net = "error" \/ ResponseOk(multi))))
                    => per[id] = Unasked(QueryResponses(backend))
          /\ call' = [op |-> "queryMultipleCollections",
                      ids |-> ids, searchText |-> searchText, topK |-> topK,
                      threshold |-> threshold, settings |-> settings,
                      queryVector |-> queryVector, multi |-> multi, per |-> per,
                      outcome |-> queryMultipleCollections(backend, ids, searchText, topK,
                                      threshold, settings, queryVector, multi, per)]
    /\ UNCHANGED <<backend, pluginAvailable, store, collectionId, parsed, host, initializing>>

PurgeVectorIndex ==
    /\ call = NoCall
    /\ \E id \in CollectionIds, settings \in SettingsSet, response \in PlainResponses :
          call' = [op |-> "purgeVectorIndex",
                   id |-> id, settings |-> settings, response |-> response,
                   outcome |->
                       CASE backend = "standard" -> Standard_purgeVectorIndex(id, settings, response)
                         [] backend = "lancedb" -> LanceDB_purgeVectorIndex(id, settings, response)
                         [] backend = "qdrant" -> Qdrant_purgeVectorIndex(id, settings, response)
                         [] backend = "milvus" -> Milvus_purgeVectorIndex(id, settings, response)]
    /\ UNCHANGED <<backend, pluginAvailable, store, collectionId, parsed, host, initializing>>

\* `listing` answers the first request; per[i] answers the purge of the i-th
\* discovered collection (LanceDB only)
PurgeAllVectorIndexes ==
    /\ call = NoCall
    /\ \E settings \in SettingsSet, plain \in PlainResponses,
          listing \in CollectionsResponses, per \in [1..MaxIds -> PlainResponses] :
          /\ backend = "lancedb" => plain = Unasked(PlainResponses)
          /\ backend # "lancedb" => listing = Unasked(CollectionsResponses)
          /\ \A i \in 1..MaxIds :
                (backend # "lancedb" \/ i > Len(listing.body.collections))
                    => per[i] = Unasked(PlainResponses)
          /\ call' = [op |-> "purgeAllVectorIndexes",
                      settings |-> settings, response |-> plain,
                      listing |-> listing, per |-> per,
                      outcome |->
                          CASE backend = "standard" -> Standard_purgeAllVectorIndexes(settings, plain)
                            [] backend = "lancedb" ->
                                   LanceDB_purgeAllVectorIndexes(settings, listing, per)
                            [] backend = "qdrant" -> Qdrant_purgeAllVectorIndexes(settings, plain)
                            [] backend = "milvus" -> Milvus_purgeAllVectorIndexes(settings, plain)]
    /\ UNCHANGED <<backend, pluginAvailable, store, collectionId, parsed, host, initializing>>

\* a getChunk that takes a failed plugin call for the plugin's absence
GetChunkDowngrading ==
    /\ call = NoCall
    /\ \E id \in CollectionIds, hash \in Hashes, settings \in SettingsSet,
          response \in ExtResponses :
          /\ (backend = "standard" /\ ~pluginAvailable) => response = Unasked(ExtResponses)
          /\ pluginAvailable' = (pluginAvailable /\ ~(backend = "standard" /\ CallFailed(response)))
          /\ call' = [op |-> "getChunk",
                      id |-> id, hash |-> hash, settings |-> settings,
                      available |-> pluginAvailable, response |-> response,
                      outcome |->
                          IF backend = "standard"
                          THEN Standard_getChunk(pluginAvailable, id, hash, settings, response)
                          ELSE Plugin_getChunk(backend, id, hash, settings, response)]
    /\ UNCHANGED <<backend, store, collectionId, parsed, host, initializing>>

GetChunk ==
    /\ call = NoCall
    /\ \E id \in CollectionIds, hash \in Hashes, settings \in SettingsSet,
          response \in ExtResponses :
          /\ (backend = "standard" /\ ~pluginAvailable) => response = Unasked(ExtResponses)
          /\ call' = [op |-> "getChunk",
                      id |-> id, hash |-> hash, settings |-> settings,
                      available |-> pluginAvailable, response |-> response,
                      outcome |->
                          IF backend = "standard"
                          THEN Standard_getChunk(pluginAvailable, id, hash, settings, response)
                          ELSE Plugin_getChunk(backend, id, hash, settings, response)]
    /\ UNCHANGED <<backend, pluginAvailable, store, collectionId, parsed, host, initializing>>

\* `plugin` answers the plugin's request, `list` the native list request of
\* the hybrid adapter's fallback
ListChunks ==
    /\ call = NoCall
    /\ \E id \in CollectionIds, settings \in SettingsSet, options \in ListOptions,
          plugin \in ExtResponses, list \in ListResponses :
          /\ (backend = "standard" /\ ~pluginAvailable) => plugin = Unasked(ExtResponses)
          /\ (backend # "standard" \/ (pluginAvailable /\ PluginAnswered(plugin)))
                => list = Unasked(ListResponses)
          /\ call' = [op |-> "listChunks",
                      id |-> id, settings |-> settings, options |-> options,
                      available |-> pluginAvailable, response |-> plugin, list |-> list,
                      outcome |->
                          IF backend = "standard"
                          THEN Standard_listChunks(pluginAvailable, id, settings, options,
                                                   plugin, list)
                          ELSE Plugin_listChunks(backend, id, settings, options, plugin)]
    /\ UNCHANGED <<backend, pluginAvailable, store, collectionId, parsed, host, initializing>>

UpdateChunkText ==
    /\ call = NoCall
    /\ \E id \in CollectionIds, hash \in Hashes, newText \in Texts, settings \in SettingsSet,
          response \in ExtResponses :
          /\ (backend = "standard" /\ ~pluginAvailable) => response = Unasked(ExtResponses)
          /\ call' = [op |-> "updateChunkText",
                      id |-> id, hash |-> hash, text |-> newText, settings |-> settings,
                      available |-> pluginAvailable, response |-> response,
                      outcome |->
                          IF backend = "standard"
                          THEN Standard_updateChunkText(pluginAvailable, id, hash, newText,
                                                        settings, response)
                          ELSE Plugin_updateChunkText(backend, id, hash, newText, settings,
                                                      response)]
    /\ UNCHANGED <<backend, pluginAvailable, store, collectionId, parsed, host, initializing>>

UpdateChunkMetadata ==
    /\ call = NoCall
    /\ \E id \in CollectionIds, hash \in Hashes, metadata \in {"m1"}, settings \in SettingsSet,
          response \in ExtResponses :
          /\ (backend = "standard" /\ ~pluginAvailable) => response = Unasked(ExtResponses)
          /\ call' = [op |-> "updateChunkMetadata",
                      id |-> id, hash |-> hash, metadata |-> metadata, settings |-> settings,
                      available |-> pluginAvailable, response |-> response,
                      outcome |->
                          IF backend = "standard"
                          THEN Standard_updateChunkMetadata(pluginAvailable, id, hash, metadata,
                                                            settings, response)
                          ELSE Plugin_updateChunkMetadata(backend, id, hash, metadata, settings,
                                                          response)]
    /\ UNCHANGED <<backend, pluginAvailable, store, collectionId, parsed, host, initializing>>

GetStats ==
    /\ call = NoCall
    /\ \E id \in CollectionIds, settings \in SettingsSet,
          plugin \in ExtResponses, list \in ListResponses :
          /\ (backend = "standard" /\ ~pluginAvailable) => plugin = Unasked(ExtResponses)
          /\ (backend # "standard"
                \/ (pluginAvailable /\ PluginAnswered(plugin) /\ plugin.body.kind = "object"))
                => list = Unasked(ListResponses)
          /\ call' = [op |-> "getStats",
                      id |-> id, settings |-> settings,
                      available |-> pluginAvailable, response |-> plugin, list |-> list,
                      outcome |->
                          IF backend = "standard"
                          THEN Standard_getStats(pluginAvailable, id, settings, plugin, list)
                          ELSE Plugin_getStats(backend, id, settings, plugin)]
    /\ UNCHANGED <<backend, pluginAvailable, store, collectionId, parsed, host, initializing>>

DiscoverCollections ==
    /\ call = NoCall
    /\ backend = "standard"
    /\ \E settings \in SettingsSet, response \in ExtResponses :
          /\ ~pluginAvailable => response = Unasked(ExtResponses)
          /\ call' = [op |-> "discoverCollections",
                      settings |-> settings,
                      available |-> pluginAvailable, response |-> response,
                      outcome |-> Standard_discoverCollections(pluginAvailable, response)]
    /\ UNCHANGED <<backend, pluginAvailable, store, collectionId, parsed, host, initializing>>

\* the caller takes the outcome; the adapter is idle again
Return ==
    /\ call # NoCall
    /\ call' = NoCall
    /\ UNCHANGED <<backend, pluginAvailable, store, collectionId, parsed, host, initializing>>

Next ==
    \/ Initialize
    \/ MilvusInitialize
    \/ HealthCheck
    \/ GetSavedHashes
    \/ InsertVectorItems
    \/ DeleteVectorItems
    \/ QueryCollection
    \/ QueryMultipleCollections
    \/ PurgeVectorIndex
    \/ PurgeAllVectorIndexes
    \/ GetChunk
    \/ ListChunks
    \/ UpdateChunkText
    \/ UpdateChunkMetadata
    \/ GetStats
    \/ DiscoverCollections
    \/ Return

Spec == Init /\ [][Next]_vars

-----------------------------------------------------------------------------
(* Specification of the adapters against a backing store that applies each *)
(* request it receives.  A stored row belongs to the scope its insert      *)
(* request named: collectionId, source, model and, for the multitenant     *)
(* adapters, the filters.  A request reaches the rows of its own scope.    *)

MaxRows == 2

StoreIds == CollectionIds
StoreSettings == {s \in SettingsSet : s.source # "undefined"}
StoreItems == {it \in Items : it.vector = "undefined"}
StoreBatches ==
    {<<>>} \cup {<<it>> : it \in StoreItems}
        \cup {<<[hash |-> "h1", text |-> "t1", index |-> NoNum, vector |-> "undefined",
                 metadata |-> NoBag, importance |-> "undefined", keywords |-> "undefined"],
                [hash |-> h, text |-> "t2", index |-> NoNum, vector |-> "undefined",
                 metadata |-> NoBag, importance |-> "undefined", keywords |-> "undefined"]>> :
              h \in Hashes}

\* the scope a request names
StoreScope(req) ==
    [collectionId |-> req.collectionId, source |-> req.source, model |-> req.model,
     filters |-> req.filters]

\* the text the store keeps for hash h of an insert request: the last item wins
LastText(items, h) ==
    LET last == CHOOSE i \in 1..Len(items) :
                    /\ items[i].hash = h
                    /\ \A j \in (i + 1)..Len(items) : items[j].hash # h
    IN items[last].text

\* insert is an upsert by hash within the scope
StoreInsert(rows, req) ==
    LET hashes == {req.items[i].hash : i \in 1..Len(req.items)}
    IN {r \in rows : ~(r.scope = StoreScope(req) /\ r.hash \in hashes)}
           \cup {[scope |-> StoreScope(req), hash |-> h, text |-> LastText(req.items, h)] :
                 h \in hashes}

StoreDelete(rows, req) ==
    {r \in rows : ~(r.scope = StoreScope(req) /\ r.hash \in Range(req.hashes))}

\* a purge with filters removes the rows of its scope; a purge without
\* filters removes every row of the collection it names
StorePurge(rows, req) ==
    IF req.filters.present THEN {r \in rows : r.scope # StoreScope(req)}
    ELSE {r \in rows : r.scope.collectionId # req.collectionId}

RECURSIVE SeqOf(_)
SeqOf(set) ==
    IF set = {} THEN <<>>
    ELSE LET x == CHOOSE y \in set : TRUE IN <<x>> \o SeqOf(set \ {x})

\* the hashes of the rows in the scope of a list request, one per row
StoreHashes(rows, req) ==
    LET found == SeqOf({r \in rows : r.scope = StoreScope(req)})
    IN [i \in 1..Len(found) |-> found[i].hash]

\* the answer to a list request: a bare array on the native path, an object
\* with `items` on the plugin path
StoreList(rows, req) ==
    [net |-> "ok", status |-> 200,
     body |-> [kind |-> IF req.backend = "none" THEN "array" ELSE "items",
               hashes |-> StoreHashes(rows, req)]]

\* what getSavedHashes returns for (id, settings) when the store answers
SavedHashes(b, id, settings, rows) ==
    LET req == getSavedHashes(b, id, settings, Unasked(ListResponses)).requests[1]
    IN getSavedHashes(b, id, settings, StoreList(rows, req)).value

\* the store receives a request unless the transport fails, and applies it
\* unless it answers with an error status
Applied(outcome, response) ==
    outcome.requests # <<>> /\ response.net = "ok" /\ ResponseOk(response)

StoreInit ==
    /\ backend \in Adapters
    /\ pluginAvailable = FALSE
    /\ call = NoCall
    /\ store = {}
    /\ collectionId = IdA
    /\ parsed = NotParsed
    /\ host = DefaultHost
    /\ initializing = NotInitializing

InsertStored ==
    /\ call = NoCall
    /\ \E id \in StoreIds, items \in StoreBatches, settings \in StoreSettings,
          response \in PlainResponses :
          LET outcome == insertVectorItems(backend, id, items, settings, response)
              after == IF Applied(outcome, response)
                       THEN StoreInsert(store, outcome.requests[1]) ELSE store
          IN /\ items = <<>> => response = Unasked(PlainResponses)
             /\ Cardinality(after) <= MaxRows
             /\ store' = after
             /\ call' = [op |-> "insertVectorItems", id |-> id, items |-> items,
                         settings |-> settings, response |-> response,
                         outcome |-> outcome]
    /\ UNCHANGED <<backend, pluginAvailable, collectionId, parsed, host, initializing>>

DeleteStored ==
    /\ call = NoCall
    /\ \E id \in StoreIds, hashes \in HashLists, settings \in StoreSettings,
          response \in PlainResponses :
          LET outcome == deleteVectorItems(backend, id, hashes, settings, response)
          IN /\ store' = IF Applied(outcome, response)
                         THEN StoreDelete(store, outcome.requests[1]) ELSE store
             /\ call' = [op |-> "deleteVectorItems", id |-> id, hashes |-> hashes,
                         settings |-> settings, response |-> response,
                         outcome |-> outcome,
                         before |-> Range(SavedHashes(backend, id, settings, store))]
    /\ UNCHANGED <<backend, pluginAvailable, collectionId, parsed, host, initializing>>

ListStored ==
    /\ call = NoCall
    /\ \E id \in StoreIds, settings \in StoreSettings :
          LET req == getSavedHashes(backend, id, settings, Unasked(ListResponses)).requests[1]
              response == StoreList(store, req)
          IN call' = [op |-> "getSavedHashes", id |-> id, settings |-> settings,
                      response |-> response,
                      outcome |-> getSavedHashes(backend, id, settings, response)]
    /\ UNCHANGED <<backend, pluginAvailable, store, collectionId, parsed, host, initializing>>

PurgeStored ==
    /\ call = NoCall
    /\ backend \in Multitenant
    /\ \E id \in StoreIds, settings \in StoreSettings, response \in PlainResponses :
          LET outcome == IF backend = "qdrant" THEN Qdrant_purgeVectorIndex(id, settings, response)
                         ELSE Milvus_purgeVectorIndex(id, settings, response)
          IN /\ store' = IF Applied(outcome, response)
                         THEN StorePurge(store, outcome.requests[1]) ELSE store
             /\ call' = [op |-> "purgeVectorIndex", id |-> id, settings |-> settings,
                         response |-> response, outcome |-> outcome]
    /\ UNCHANGED <<backend, pluginAvailable, collectionId, parsed, host, initializing>>

PurgeAllStored ==
    /\ call = NoCall
    /\ backend \in Multitenant
    /\ \E settings \in StoreSettings, response \in PlainResponses :
          LET outcome == IF backend = "qdrant" THEN Qdrant_purgeAllVectorIndexes(settings, response)
                         ELSE Milvus_purgeAllVectorIndexes(settings, response)
          IN /\ store' = IF Applied(outcome, response)
                         THEN StorePurge(store, outcome.requests[1]) ELSE store
             /\ call' = [op |-> "purgeAllVectorIndexes", settings |-> settings,
                         before |-> store, response |-> response, outcome |-> outcome]
    /\ UNCHANGED <<backend, pluginAvailable, collectionId, parsed, host, initializing>>

StoreNext ==
    \/ InsertStored
    \/ DeleteStored
    \/ ListStored
    \/ PurgeStored
    \/ PurgeAllStored
    \/ Return

SpecStore == StoreInit /\ [][StoreNext]_vars

-----------------------------------------------------------------------------
(* Claims about the decoder *)

Decoded == parsed.by # "none"

\* C9: the decoder is total: for every input (any string, the empty string,
\* null, undefined, numbers, booleans, objects) it returns a pair of strings
\* (type, sourceId) and never raises.
C9_DecodeTotal ==
    Decoded =>
        /\ ~parsed.result.raised
        /\ parsed.result.type.kind = "string"
        /\ parsed.result.sourceId.kind = "string"

\* C9 witness: a non-string and the empty string have been decoded.
C9_Witness ==
    /\ Decoded
    /\ collectionId \in {JsNull, JsObject, Str(<<>>)}
    /\ parsed.result = Tenant(Str(<<"unknown">>), Str(<<"unknown">>))

\* "vh:" + type + ":" + sourceId
Encode(type, sourceId) == <<"vh", ":">> \o type \o <<":">> \o sourceId

\* the positions k of the id's tokens at which it reads as Encode(type, sourceId):
\* type is what lies between the leading "vh:" and the ':' at k
EncodeCuts(s) == {k \in 3..Len(s) : s[1] = "vh" /\ s[2] = ":" /\ s[k] = ":"}

RoundTripAt(s, k) ==
    /\ s = Encode(SubSeq(s, 3, k - 1), SubSeq(s, k + 1, Len(s)))
    /\ parsed.result = Tenant(Str(SubSeq(s, 3, k - 1)), Str(SubSeq(s, k + 1, Len(s))))

\* C10 as stated: for EVERY type and every sourceId, decoding
\* "vh:" + type + ":" + sourceId returns exactly (type, sourceId).
C10_RoundTripAnyType ==
    (Decoded /\ collectionId.kind = "string") =>
        \A k \in EncodeCuts(collectionId.str) : RoundTripAt(collectionId.str, k)

\* C10 amended: for every type that contains no ':' and every sourceId
\* (possibly empty, possibly containing ':' or '_'), decoding
\* "vh:" + type + ":" + sourceId returns exactly (type, sourceId).
C10_RoundTrip ==
    (Decoded /\ collectionId.kind = "string") =>
        \A k \in EncodeCuts(collectionId.str) :
            (\A j \in 3..(k - 1) : collectionId.str[j] # ":")
                => RoundTripAt(collectionId.str, k)

\* C10 witness: "vh:chat:abc:def" has been decoded to ("chat", "abc:def").
C10_Witness ==
    /\ Decoded
    /\ collectionId = Str(Encode(<<"chat">>, <<"abc", ":", "def">>))
    /\ parsed.result = Tenant(Str(<<"chat">>), Str(<<"abc", ":", "def">>))

\* "vecthare_" + type + "_" + sourceId
EncodeLegacy(type, sourceId) == <<"vecthare", "_">> \o type \o <<"_">> \o sourceId

\* the positions k of the id's tokens at which it reads as
\* EncodeLegacy(type, sourceId) with a type that has no '_'
LegacyCuts(s) ==
    {k \in 3..Len(s) : /\ s[1] = "vecthare" /\ s[2] = "_" /\ s[k] = "_"
                       /\ \A j \in 3..(k - 1) : s[j] # "_"}

\* C11: every legacy-format id "vecthare_" + type + "_" + sourceId, type
\* without '_', sourceId possibly with '_' or ':', decodes to exactly
\* (type, sourceId): only the first two '_' are significant.
C11_LegacyRoundTrip ==
    (Decoded /\ collectionId.kind = "string") =>
        \A k \in LegacyCuts(collectionId.str) :
            LET s == collectionId.str
            IN /\ s = EncodeLegacy(SubSeq(s, 3, k - 1), SubSeq(s, k + 1, Len(s)))
               /\ parsed.result = Tenant(Str(SubSeq(s, 3, k - 1)), Str(SubSeq(s, k + 1, Len(s))))

\* C11 witness: "vecthare_doc_char_456" has been decoded to ("doc", "char_456").
C11_Witness ==
    /\ Decoded
    /\ collectionId = Str(EncodeLegacy(<<"doc">>, <<"char", "_", "456">>))
    /\ parsed.result = Tenant(Str(<<"doc">>), Str(<<"char", "_", "456">>))

\* the id reads "vh:" type ":" sourceId
CurrentFormat(s) == Len(s) >= 3 /\ s[1] = "vh" /\ s[2] = ":" /\ \E k \in 3..Len(s) : s[k] = ":"

\* the id reads "vecthare_" type "_" sourceId
LegacyFormat(s) ==
    Len(s) >= 3 /\ s[1] = "vecthare" /\ s[2] = "_" /\ \E k \in 3..Len(s) : s[k] = "_"

\* C12 as stated: every id in neither format, the empty string included,
\* decodes to ("chat", the entire input).
C12_FallbackAnyString ==
    (/\ Decoded
     /\ collectionId.kind = "string"
     /\ ~CurrentFormat(collectionId.str)
     /\ ~LegacyFormat(collectionId.str))
        => parsed.result = Tenant(Str(<<"chat">>), collectionId)

\* C12 amended: every non-empty id in neither format decodes to
\* ("chat", the entire input); ids with fewer than two delimiters included.
C12_Fallback ==
    (/\ Decoded
     /\ collectionId.kind = "string"
     /\ collectionId.str # <<>>
     /\ ~CurrentFormat(collectionId.str)
     /\ ~LegacyFormat(collectionId.str))
        => parsed.result = Tenant(Str(<<"chat">>), collectionId)

\* C12 witness: "vh:chat", with one delimiter only, has been decoded to
\* ("chat", "vh:chat").
C12_Witness ==
    /\ Decoded
    /\ collectionId = Str(<<"vh", ":", "chat">>)
    /\ parsed.result = Tenant(Str(<<"chat">>), Str(<<"vh", ":", "chat">>))

-----------------------------------------------------------------------------
(* Claims about queryMultipleCollections *)

\* a request that got no success answer: a transport error or a status
\* outside 200..299
Failed(response) == response.net = "error" \/ ~ResponseOk(response)

\* the hybrid adapter sends one query-multi request for all the ids
MultiAsked == backend = "standard"

\* a request is sent for each id alone: always on the plugin adapters, on the
\* hybrid adapter once query-multi was answered with a non-success status
PerAsked == backend # "standard" \/ (call.multi.net = "ok" /\ ~ResponseOk(call.multi))

\* the list of results a well-formed success answer for one collection holds
AnsweredList(response) ==
    IF backend = "standard"
    THEN [def |-> response.body.hashes.def \/ response.body.metadata.def,
          hashes |-> IF response.body.hashes.def THEN response.body.hashes.seq ELSE <<>>,
          nulls |-> \E i \in 1..Len(response.body.metadata.seq) :
                        response.body.metadata.seq[i].kind = "null"]
    ELSE LET list == IF response.body.results.def THEN response.body.results.seq
                     ELSE response.body.chunks.seq
         IN [def |-> response.body.results.def \/ response.body.chunks.def,
             hashes |-> [i \in 1..Len(list) |-> list[i].hash],
             nulls |-> \E i \in 1..Len(list) : list[i].kind = "null"]

\* the call for one collection succeeded with a list of results
Succeeded(response) ==
    /\ ~Failed(response)
    /\ response.body.kind = "object"
    /\ AnsweredList(response).def
    /\ ~AnsweredList(response).nulls

\* C1: on every adapter, when a backend call made for one or more of the
\* requested collections fails (transport error or non-success status),
\* queryMultipleCollections does not raise, the entry of each collection whose
\* call failed is {hashes: [], metadata: []}, and each collection whose call
\* succeeded keeps its populated Query Result.
C1_FailureIsolated ==
    (/\ call.op = "queryMultipleCollections"
     /\ \/ MultiAsked /\ Failed(call.multi)
        \/ PerAsked /\ \E id \in Range(call.ids) : Failed(call.per[id]))
        => /\ ~call.outcome.raised
           /\ PerAsked =>
                 \A id \in Range(call.ids) :
                    /\ Failed(call.per[id]) =>
                          call.outcome.value.map[id] = Populated(EmptyResult)
                    /\ Succeeded(call.per[id]) =>
                          /\ call.outcome.value.map[id].shape = "queryResult"
                          /\ call.outcome.value.map[id].result.hashes
                                = AnsweredList(call.per[id]).hashes

\* C1 failing call: the hybrid adapter's query-multi request meets a
\* transport error and the operation raises.
C1_Witness ==
    /\ call.op = "queryMultipleCollections"
    /\ backend = "standard"
    /\ call.ids = <<IdA, IdB>>
    /\ call.multi.net = "error"
    /\ call.outcome.raised

\* C2: on every adapter, whatever the backend answers, the value
\* queryMultipleCollections returns is a mapping whose key set is exactly the
\* set of requested collection ids, each mapped to a Query Result of the shape
\* {hashes, metadata}.
C2_KeysAreRequestedIds ==
    (call.op = "queryMultipleCollections" /\ ~call.outcome.raised)
        => /\ call.outcome.value.kind = "object"
           /\ DOMAIN call.outcome.value.map = Range(call.ids)
           /\ \A id \in Range(call.ids) : call.outcome.value.map[id].shape = "queryResult"

\* C2 failing call: the hybrid adapter returns the answer of query-multi as
\* it is, here an object with no key at all for two requested ids.
C2_Witness ==
    /\ call.op = "queryMultipleCollections"
    /\ backend = "standard"
    /\ call.ids = <<IdA, IdB>>
    /\ ResponseOk(call.multi)
    /\ call.multi.body.kind = "object"
    /\ ~call.outcome.raised
    /\ DOMAIN call.outcome.value.map = {}

-----------------------------------------------------------------------------
(* Claims about queryCollection *)

\* C3: on every adapter, the threshold queryCollection sends to the backend
\* equals settings.score_threshold, so that no item scoring below it is
\* returned.
C3_ThresholdFromSettings ==
    (call.op = "queryCollection" /\ call.settings.score_threshold.def)
        => call.outcome.requests[1].threshold = call.settings.score_threshold.n

\* C3 failing call: a plugin adapter queried under score_threshold 0.5 sends
\* threshold 0 and returns an item that scores 0.4.
C3_Witness ==
    /\ call.op = "queryCollection"
    /\ backend = "qdrant"
    /\ call.settings.score_threshold = Num(50)
    /\ call.outcome.requests[1].threshold = 0
    /\ ~call.outcome.raised
    /\ \E i \in 1..Len(call.outcome.value.metadata) :
          call.outcome.value.metadata[i].score = Num(40)

-----------------------------------------------------------------------------
(* Claims about insertVectorItems *)

\* C4: on every adapter and in every adapter state, insertVectorItems with an
\* empty item list sends no request and returns without error.
C4_EmptyInsertNoOp ==
    (call.op = "insertVectorItems" /\ call.items = <<>>)
        => /\ ~call.outcome.raised
           /\ call.outcome.requests = <<>>

\* C4 witness: the hybrid adapter, initialized with the plugin available, has
\* been given an empty item list.
C4_Witness ==
    /\ call.op = "insertVectorItems"
    /\ call.items = <<>>
    /\ backend = "standard"
    /\ pluginAvailable
    /\ call.outcome = Returned("undefined", <<>>)

\* the insert request carries the vector of the i-th item
CarriesVector(req, items, i) ==
    IF backend = "standard"
    THEN /\ req.embeddings.present
         /\ req.embeddings.map[items[i].text] = items[i].vector
    ELSE req.items[i].vector = items[i].vector

\* C5: on every adapter, the insert request carries the vector of every item
\* that has a pre-computed one, whether or not the other items of the batch,
\* the first one in particular, have a vector.
C5_VectorPassedThrough ==
    (call.op = "insertVectorItems" /\ call.items # <<>>)
        => \A i \in 1..Len(call.items) :
              call.items[i].vector # "undefined"
                  => CarriesVector(call.outcome.requests[1], call.items, i)

\* C5 failing call: on the hybrid adapter the first item has no vector, the
\* second has one, and the request has no embeddings at all.
C5_Witness ==
    /\ call.op = "insertVectorItems"
    /\ backend = "standard"
    /\ Len(call.items) = 2
    /\ call.items[1].vector = "undefined"
    /\ call.items[2].vector = "v1"
    /\ call.outcome.requests[1].embeddings = NoEmbeddings

-----------------------------------------------------------------------------
(* Claims about healthCheck and getSavedHashes *)

\* C7: on every adapter healthCheck returns a boolean and never raises, for
\* every status, every body (unparsable included) and a transport failure;
\* on the hybrid adapter a status of 200 or 500 on the native list path
\* yields true.
C7_HealthCheckBoolean ==
    call.op = "healthCheck"
        => /\ ~call.outcome.raised
           /\ call.outcome.value \in {"true", "false"}
           /\ (/\ backend = "standard"
               /\ call.response.net = "ok"
               /\ call.response.status \in {200, 500})
                  => call.outcome.value = "true"

\* C7 witness: the hybrid adapter's probe was answered 500 and healthCheck
\* returned true.
C7_Witness ==
    /\ call.op = "healthCheck"
    /\ backend = "standard"
    /\ call.response.net = "ok"
    /\ call.response.status = 500
    /\ call.outcome = Returned("true", call.outcome.requests)

\* C8: for a collection that was never created getSavedHashes returns the
\* empty set and does not raise: on the hybrid adapter a 500 yields [] and
\* the other non-success statuses raise; on the plugin adapters a non-success
\* status for a never-created collection does not raise either.
C8_NeverCreatedIsEmpty ==
    (/\ call.op = "getSavedHashes"
     /\ call.response.net = "ok"
     /\ ~ResponseOk(call.response))
        => /\ (backend = "standard" /\ call.response.status = 500)
                  => call.outcome = Returned(<<>>, call.outcome.requests)
           /\ (backend = "standard" /\ call.response.status # 500)
                  => call.outcome.raised
           /\ (backend # "standard" /\ ~call.everCreated)
                  => call.outcome = Returned(<<>>, call.outcome.requests)

\* C8 failing call: a plugin adapter lists a never-created collection, the
\* backend answers 404 and the operation raises.
C8_Witness ==
    /\ call.op = "getSavedHashes"
    /\ backend = "lancedb"
    /\ ~call.everCreated
    /\ call.response.net = "ok"
    /\ call.response.status = 404
    /\ call.outcome.raised

-----------------------------------------------------------------------------
(* Claims about the adapters against the backing store *)

\* the stored rows getSavedHashes(id, settings) lists
Visible(b, id, settings, rows) ==
    LET req == getSavedHashes(b, id, settings, Unasked(ListResponses)).requests[1]
    IN {r \in rows : r.scope = StoreScope(req)}

\* C6: against a store that applies each request, on every adapter and for
\* every collection id: after an insert, each inserted hash is listed exactly
\* once for the collection and its item is the new one; and after a hash
\* stored by insertVectorItems is deleted by deleteVectorItems under the same
\* settings, getSavedHashes for that collection does not contain it.
C6_UpsertAndDelete ==
    /\ (call.op = "insertVectorItems" /\ Applied(call.outcome, call.response))
          => \A i \in 1..Len(call.items) :
                LET h == call.items[i].hash
                    listed == SavedHashes(backend, call.id, call.settings, store)
                IN /\ Cardinality({k \in 1..Len(listed) : listed[k] = h}) = 1
                   /\ \A r \in Visible(backend, call.id, call.settings, store) :
                         r.hash = h => r.text = LastText(call.items, h)
    /\ (call.op = "deleteVectorItems" /\ Applied(call.outcome, call.response))
          => \A h \in Range(call.hashes) \cap call.before :
                h \notin Range(SavedHashes(backend, call.id, call.settings, store))

\* C6 failing run: on the hybrid adapter "h1" was inserted under settings
\* that name a model, the delete of "h1" under the same settings was applied,
\* and "h1" is still listed.
C6_Witness ==
    /\ call.op = "deleteVectorItems"
    /\ backend = "standard"
    /\ call.settings.cohere_model = "embed-v3"
    /\ Applied(call.outcome, call.response)
    /\ "h1" \in Range(call.hashes) \cap call.before
    /\ "h1" \in Range(SavedHashes(backend, call.id, call.settings, store))

-----------------------------------------------------------------------------
(* Claims about the multitenant adapters against the backing store *)

\* the hashes getSavedHashes(id, settings) returns, for every settings
SavedOf(id, rows) ==
    [settings \in StoreSettings |-> Range(SavedHashes(backend, id, settings, rows))]

\* the step is a call of insertVectorItems, deleteVectorItems or
\* purgeVectorIndex on a multitenant adapter
TenantWrite ==
    /\ backend \in Multitenant
    /\ call'.op \in {"insertVectorItems", "deleteVectorItems", "purgeVectorIndex"}

\* C13 as stated: on the multitenant adapters, for any two distinct
\* collection ids A and B, no insert, delete or purge on A changes what
\* getSavedHashes(B) returns.
C13_IsolationOfDistinctIds ==
    [][TenantWrite =>
          \A B \in StoreIds \ {call'.id} : SavedOf(B, store') = SavedOf(B, store)]_vars

\* C13 amended: on the multitenant adapters, for any two collection ids A
\* and B that decode to different (type, sourceId) pairs, no insert, delete
\* or purge on A changes what getSavedHashes(B) returns.
C13_IsolationOfTenants ==
    [][TenantWrite =>
          \A B \in StoreIds :
             ParseCollectionId(backend, B) # ParseCollectionId(backend, call'.id)
                 => SavedOf(B, store') = SavedOf(B, store)]_vars

\* C13 witness: on Qdrant a purge of "vh:chat:abc" was applied while
\* "vh:doc:abc" has a stored hash under the same settings, which is still
\* listed.
C13_Witness ==
    /\ backend = "qdrant"
    /\ call.op = "purgeVectorIndex"
    /\ call.id = IdA
    /\ Applied(call.outcome, call.response)
    /\ Range(SavedHashes(backend, IdB, call.settings, store)) # {}
    /\ Range(SavedHashes(backend, IdA, call.settings, store)) = {}

-----------------------------------------------------------------------------
(* Tenant scoping of the multitenant adapters' requests *)

CollectionScoped ==
    {"getSavedHashes", "insertVectorItems", "deleteVectorItems", "queryCollection",
     "purgeVectorIndex", "getChunk", "listChunks", "updateChunkText",
     "updateChunkMetadata", "getStats"}

\* the request names the shared collection and the tenant decoded from id
TenantScoped(req, id) ==
    /\ req.collectionId = VecthareMain
    /\ req.filters = Filters(ParseCollectionId(backend, id))

\* C14: on the multitenant adapters every request of every collection-scoped
\* operation names 'vecthare_main' and carries the filters {type, sourceId}
\* decoded from the caller's collection id.
C14_EveryRequestTenantScoped ==
    backend \in Multitenant =>
        /\ call.op \in CollectionScoped
              => \A i \in DOMAIN call.outcome.requests :
                    TenantScoped(call.outcome.requests[i], call.id)
        /\ call.op = "queryMultipleCollections"
              => \A i \in DOMAIN call.outcome.requests :
                    TenantScoped(call.outcome.requests[i], call.ids[i])

\* C14 failing call: getChunk on a multitenant adapter sends a request that
\* names the shared collection and carries no filters.
C14_Witness ==
    /\ backend \in Multitenant
    /\ call.op = "getChunk"
    /\ call.id = IdA
    /\ Len(call.outcome.requests) = 1
    /\ call.outcome.requests[1].collectionId = VecthareMain
    /\ ~call.outcome.requests[1].filters.present

\* every collection-scoped operation but getChunk scopes its requests
C14_ScopedButGetChunk ==
    (backend \in Multitenant /\ call.op # "getChunk") => C14_EveryRequestTenantScoped

-----------------------------------------------------------------------------
(* purgeAllVectorIndexes on the multitenant adapters *)

\* C15: on the multitenant adapters purgeAllVectorIndexes(settings) sends, for
\* every settings, a single purge of the shared collection without tenant
\* filter; once the store has applied it, getSavedHashes is empty for every
\* collection id of every tenant.
C15_PurgeAllEmptiesEveryTenant ==
    (backend \in Multitenant /\ call.op = "purgeAllVectorIndexes")
        => /\ Len(call.outcome.requests) = 1
           /\ call.outcome.requests[1].collectionId = VecthareMain
           /\ ~call.outcome.requests[1].filters.present
           /\ Applied(call.outcome, call.response)
                 => \A id \in StoreIds, settings \in StoreSettings :
                       SavedHashes(backend, id, settings, store) = <<>>

\* C15 case: a purge-all applied to a store that held rows of two tenants
C15_Witness ==
    /\ backend \in Multitenant
    /\ call.op = "purgeAllVectorIndexes"
    /\ Applied(call.outcome, call.response)
    /\ \E r, q \in call.before : r.scope.filters # q.scope.filters
    /\ store = {}

-----------------------------------------------------------------------------
(* purgeAllVectorIndexes on the LanceDB adapter *)

\* the enumeration call gave a list of collections (possibly none)
Enumerated(listing) ==
    listing.net = "ok" /\ ResponseOk(listing) /\ listing.body.kind \in {"object", "listed"}

\* C16: LanceDB purgeAllVectorIndexes enumerates the discovered collections
\* and sends one purge per discovered collection, in order; the failure of a
\* purge neither raises nor stops the later purges, so each discovered
\* collection is attempted exactly once; the call raises only when the
\* enumeration itself fails.
C16_PurgeAllAttemptsEach ==
    (backend = "lancedb" /\ call.op = "purgeAllVectorIndexes")
        => LET collections == call.listing.body.collections
               requests == call.outcome.requests
           IN /\ requests[1].path = "/api/plugins/similharity/collections"
              /\ call.outcome.raised <=> ~Enumerated(call.listing)
              /\ ~Enumerated(call.listing) => Len(requests) = 1
              /\ Enumerated(call.listing)
                    => /\ Len(requests) = 1 + Len(collections)
                       /\ \A i \in 1..Len(collections) :
                             /\ requests[i + 1].path = "/api/plugins/similharity/chunks/purge"
                             /\ requests[i + 1].collectionId = collections[i].id

\* C16 case: two collections discovered, the purge of the first fails, the
\* second is purged all the same and the call returns
C16_Witness ==
    /\ backend = "lancedb"
    /\ call.op = "purgeAllVectorIndexes"
    /\ Len(call.listing.body.collections) = 2
    /\ ~(call.per[1].net = "ok" /\ ResponseOk(call.per[1]))
    /\ call.per[2].net = "ok" /\ ResponseOk(call.per[2])
    /\ ~call.outcome.raised
    /\ Len(call.outcome.requests) = 3
    /\ call.outcome.requests[3].collectionId = call.listing.body.collections[2].id

-----------------------------------------------------------------------------
(* initialize of the hybrid adapter *)

ProbeSucceeded(health) == health.net = "ok" /\ ResponseOk(health)

\* C17: the hybrid adapter's initialize never raises and ends with
\* pluginAvailable false (NativeOnly) or true (NativeWithExtensions); true
\* only if the health probe answered with a success status and the
\* backend-init call was sent; false on any probe failure; the backend-init
\* call is sent only after a successful probe.
C17_InitializeNeverRaises ==
    call.op = "initialize"
        => LET health == call.responses[1]
               requests == call.outcome.requests
               initSent == /\ Len(requests) = 2
                           /\ requests[2].path = "/api/plugins/similharity/backend/init/vectra"
           IN /\ ~call.outcome.raised
              /\ pluginAvailable \in BOOLEAN
              /\ requests[1].path = "/api/plugins/similharity/health"
              /\ pluginAvailable => (ProbeSucceeded(health) /\ initSent)
              /\ ~ProbeSucceeded(health) => (~pluginAvailable /\ Len(requests) = 1)
              /\ Len(requests) > 1 => (ProbeSucceeded(health) /\ initSent)

\* C17 case: the probe succeeds, the backend-init call is sent and answered
\* with an error status, and the adapter has extensions
C17_Witness ==
    /\ call.op = "initialize"
    /\ ProbeSucceeded(call.responses[1])
    /\ call.responses[2].net = "ok"
    /\ call.responses[2].status = 500
    /\ pluginAvailable
    /\ ~call.outcome.raised
    /\ Len(call.outcome.requests) = 2

-----------------------------------------------------------------------------
(* initialize of the Milvus adapter *)

\* the value is a non-zero integer, as a number or as its decimal text
ValidDimension(v) ==
    /\ v.kind \in {"number", "string"}
    /\ v.text # <<>>
    /\ DigitPrefix(v.text) = v.text
    /\ DigitsValue(v.text) # 0

\* the test embedding gave a vector
Detected(detect) ==
    /\ detect.net = "ok"
    /\ ResponseOk(detect)
    /\ detect.body.kind = "object"
    /\ detect.body.success
    /\ detect.body.embedding = "array"

\* what initialize does when `manual` tells whether the configured dimension
\* is used: with it, no test embedding and the init request carries the
\* configured number; without it, one test embedding first, the init request
\* carries its length or null, and a failed detection raises nothing
DimensionsRule(manual) ==
    LET requests == call.outcome.requests
        last == requests[Len(requests)]
    IN /\ last.path = "/api/plugins/similharity/backend/init/milvus"
       /\ call.outcome.raised <=> ~(call.response.net = "ok" /\ ResponseOk(call.response))
       /\ manual => /\ Len(requests) = 1
                    /\ last.dimensions = Num(DigitsValue(DigitPrefix(call.dims.text)))
       /\ ~manual => /\ Len(requests) = 2
                     /\ requests[1].path = "/api/plugins/similharity/get-embedding"
                     /\ last.dimensions = IF Detected(call.detect)
                                          THEN Num(call.detect.body.length) ELSE NoNum

\* C18: Milvus initialize makes no test-embedding request and sends the
\* configured dimension when settings.milvus_dimensions is a valid non-zero
\* integer; otherwise it makes exactly one test-embedding request and sends
\* the vector's length, or null when the detection fails in any way, and the
\* failed detection does not fail initialize.
C18_DimensionsManualOrDetected ==
    call.op = "milvusInitialize" => DimensionsRule(ValidDimension(call.dims))

\* C18 failing call: milvus_dimensions is the string '1a', not an integer; no
\* test embedding is requested and the init request carries dimensions 1
C18_Witness ==
    /\ call.op = "milvusInitialize"
    /\ call.dims = [kind |-> "string", text |-> <<"1", "a">>]
    /\ Len(call.outcome.requests) = 1
    /\ call.outcome.requests[1].path = "/api/plugins/similharity/backend/init/milvus"
    /\ call.outcome.requests[1].dimensions = Num(1)

\* the same rule holds when the configured value is taken for a dimension
\* whenever parseInt reads a non-zero number from it
C18_DimensionsParsedOrDetected ==
    call.op = "milvusInitialize"
        => DimensionsRule(DimTruthy(call.dims) /\ OrZero(ParseInt(call.dims)) # 0)

\* a failed detection with no usable configured value: initialize goes on
C18_DetectionFailed ==
    /\ call.op = "milvusInitialize"
    /\ ~DimTruthy(call.dims)
    /\ call.detect.net = "error"
    /\ ~call.outcome.raised
    /\ call.outcome.requests[2].dimensions = NoNum

-----------------------------------------------------------------------------
(* The hybrid adapter without the plugin (NativeOnly) *)

NativeOnly(op) == backend = "standard" /\ call.op = op /\ ~call.available

\* no request of the call goes to the plugin: each is the native list request
OnlyNativeList(requests) ==
    \A i \in DOMAIN requests : requests[i].path = "/api/vector/list"

\* C19: in NativeOnly, listChunks(id, settings, options) sends no request to
\* the plugin and returns the hashes getSavedHashes(id, settings) returns, in
\* the same order, each as {hash, text: '', metadata: {}}, with total equal
\* to their number.
C19_ListChunksFallback ==
    NativeOnly("listChunks")
        => LET native == Standard_getSavedHashes(call.id, call.settings, call.list)
           IN /\ OnlyNativeList(call.outcome.requests)
              /\ call.outcome.requests = native.requests
              /\ call.outcome.raised <=> native.raised
              /\ ~call.outcome.raised
                    => /\ call.outcome.value.total = Len(native.value)
                       /\ Len(call.outcome.value.items) = Len(native.value)
                       /\ \A i \in 1..Len(native.value) :
                             call.outcome.value.items[i]
                                 = [hash |-> native.value[i], text |-> "", metadata |-> "{}"]

\* C19 case: options are given, the native list has two hashes, and
\* listChunks returns two items in the order of the list
C19_Witness ==
    /\ NativeOnly("listChunks")
    /\ call.options.limit = Num(1)
    /\ ~call.outcome.raised
    /\ call.outcome.value.total = 2
    /\ call.outcome.value.items[1].hash = "h2"
    /\ call.outcome.value.items[2].hash = "h1"
    /\ Len(call.outcome.requests) = 1

\* C20: in NativeOnly, also before initialize was ever called,
\* updateChunkText and updateChunkMetadata fail with the explicit capability
\* error without sending a request or changing anything; getChunk and
\* discoverCollections return null without sending a request; getStats
\* returns the bare count of the saved hashes.
C20_NativeOnlyDegrades ==
    /\ (NativeOnly("updateChunkText") \/ NativeOnly("updateChunkMetadata"))
          => /\ call.outcome = CapabilityUnavailable
             /\ call.outcome.requests = <<>>
             /\ ~pluginAvailable
    /\ (NativeOnly("getChunk") \/ NativeOnly("discoverCollections"))
          => call.outcome = Returned("null", <<>>)
    /\ NativeOnly("getStats")
          => LET native == Standard_getSavedHashes(call.id, call.settings, call.list)
             IN /\ OnlyNativeList(call.outcome.requests)
                /\ call.outcome.raised <=> native.raised
                /\ ~call.outcome.raised
                      => call.outcome.value = [count |-> Len(native.value), source |-> "native"]

\* C20 case: updateChunkText on an adapter without the plugin
C20_Witness ==
    /\ NativeOnly("updateChunkText")
    /\ call.outcome.raised
    /\ call.outcome.value = "CapabilityUnavailable"
    /\ call.outcome.requests = <<>>

\* C20 case: getStats on an adapter without the plugin counts two hashes
C20_StatsCounted ==
    /\ NativeOnly("getStats")
    /\ ~call.outcome.raised
    /\ call.outcome.value.count = 2

-----------------------------------------------------------------------------
(* Positional zip of the native query answer *)

\* the hybrid adapter's queryCollection returned the formatted answer of a
\* native response that has both arrays, of equal length
NativeZipped ==
    /\ backend = "standard"
    /\ call.op = "queryCollection"
    /\ ~call.outcome.raised
    /\ call.response.body.hashes.def
    /\ call.response.body.metadata.def
    /\ Len(call.response.body.hashes.seq) = Len(call.response.body.metadata.seq)

ZippedByPosition ==
    LET result == call.outcome.value
    IN /\ result.hashes = call.response.body.hashes.seq
       /\ Len(result.metadata) = Len(result.hashes)
       /\ \A i \in 1..Len(result.hashes) : result.metadata[i].hash = result.hashes[i]

\* C21: the hybrid queryCollection zips the native response by position: the
\* result's hashes are the response's hashes in the same order, its metadata
\* has one entry per hash, and metadata[i].hash = hashes[i] for every i, even
\* when a metadata entry of the response has a hash, text or score of its own.
C21_ZippedByPosition ==
    NativeZipped => ZippedByPosition

\* C21 failing call: the second metadata entry of the response has its own
\* hash 'h9', and the result's second entry carries 'h9', not hashes[2]
C21_Witness ==
    /\ NativeZipped
    /\ call.outcome.value.hashes = <<"h1", "h2">>
    /\ call.response.body.metadata.seq[2].hash = "h9"
    /\ call.outcome.value.metadata[2].hash = "h9"

\* the zip is positional when no metadata entry has a hash of its own
C21_ZippedWithoutOwnHash ==
    (NativeZipped /\ \A i \in 1..Len(call.response.body.metadata.seq) :
                        call.response.body.metadata.seq[i].hash = "undefined")
        => ZippedByPosition

-----------------------------------------------------------------------------
(* Propagation of failed remote calls *)

\* the call sent its request and the request failed
SentAndFailed == call.outcome.requests # <<>> /\ CallFailed(call.response)

\* the native list request of the hybrid adapter was sent and failed, other
\* than by the status 500 that stands for a collection not yet created
NativeListFailed(list) ==
    /\ call.outcome.requests # <<>>
    /\ call.outcome.requests[Len(call.outcome.requests)].path = "/api/vector/list"
    /\ CallFailed(list)
    /\ ~(list.net = "ok" /\ list.status = 500)

\* failures of the operations with one required request
PropagatesSingle ==
    /\ call.op \in {"insertVectorItems", "deleteVectorItems", "queryCollection",
                    "purgeVectorIndex", "updateChunkText", "updateChunkMetadata"}
          => (SentAndFailed => call.outcome.raised)
    /\ call.op = "getSavedHashes"
          => IF backend = "standard"
             THEN NativeListFailed(call.response) => call.outcome.raised
             ELSE SentAndFailed => call.outcome.raised
    /\ call.op = "milvusInitialize"
          => (CallFailed(call.response) => call.outcome.raised)
    /\ call.op = "purgeAllVectorIndexes"
          => IF backend = "lancedb"
             THEN CallFailed(call.listing) => call.outcome.raised
             ELSE SentAndFailed => call.outcome.raised
    /\ (call.op = "queryMultipleCollections" /\ backend = "standard")
          => (call.multi.net = "error" => call.outcome.raised)
    /\ call.op \in {"listChunks", "getStats"}
          => IF backend = "standard"
             THEN NativeListFailed(call.list) => call.outcome.raised
             ELSE SentAndFailed => call.outcome.raised

\* failures of getChunk and discoverCollections
PropagatesLookups ==
    call.op \in {"getChunk", "discoverCollections"}
        => (SentAndFailed => call.outcome.raised)

\* C22: but for the probing operations (healthCheck, the hybrid adapter's
\* initialize, the Milvus dimension detection) and a failing collection inside
\* queryMultipleCollections, every operation of every adapter raises when a
\* required remote call fails; no extended operation of the hybrid adapter
\* with the plugin available turns a failed plugin call into a normal absent
\* or empty result.
C22_FailuresPropagate ==
    PropagatesSingle /\ PropagatesLookups

\* C22 failing call: the plugin is available, answers getChunk with status
\* 500, and the hybrid adapter returns null
C22_Witness ==
    /\ backend = "standard"
    /\ call.op = "getChunk"
    /\ call.available
    /\ call.response.net = "ok"
    /\ call.response.status = 500
    /\ call.outcome = Returned("null", call.outcome.requests)
    /\ Len(call.outcome.requests) = 1

\* every operation but getChunk and discoverCollections propagates
C22_PropagatesButLookups ==
    PropagatesSingle

\* on the plugin adapters getChunk propagates every failure but the status 404
C22_PluginLookupPropagates ==
    (call.op = "getChunk" /\ backend # "standard"
        /\ ~(call.response.net = "ok" /\ call.response.status = 404))
        => (SentAndFailed => call.outcome.raised)

-----------------------------------------------------------------------------
(* The provider parameter resolver, getProviderSpecificParams, with every  *)
(* provider it distinguishes and the host settings it reads.  A caller     *)
(* resolves the parameters of some settings, the host application may      *)
(* change its own settings, and the caller resolves the same settings      *)
(* again.                                                                  *)

Absent == "absent"

ParamSources ==
    {"extras", "cohere", "ollama", "llamacpp", "vllm", "bananabread", "palm", "vertexai",
     "transformers", "undefined"}

ParamSettings ==
    [source : ParamSources, use_alt_endpoint : BOOLEAN, alt_endpoint_url : {"alt"},
     ollama_keep : BOOLEAN]

\* const params = {}
NoParams ==
    [extrasUrl |-> Absent, extrasKey |-> Absent, input_type |-> Absent, apiUrl |-> Absent,
     keep |-> Absent, apiKey |-> Absent, api |-> Absent, vertexai_auth_mode |-> Absent,
     vertexai_region |-> Absent, vertexai_express_project_id |-> Absent]

\* settings.use_alt_endpoint ? settings.alt_endpoint_url : <the host's url>
EndpointUrl(settings, hostUrl) ==
    IF settings.use_alt_endpoint THEN settings.alt_endpoint_url ELSE hostUrl

\* Array.isArray(secrets) ? (secrets.find(s => s.active) || secrets[0]) : null,
\* and its value; Absent when there is no such secret
ActiveSecretValue(secrets) ==
    IF secrets.kind # "array" \/ secrets.list = <<>> THEN Absent
    ELSE IF \E i \in 1..Len(secrets.list) : secrets.list[i].active
         THEN LET first == CHOOSE i \in 1..Len(secrets.list) :
                               /\ secrets.list[i].active
                               /\ \A j \in 1..(i - 1) : ~secrets.list[j].active
              IN secrets.list[first].value
    ELSE secrets.list[1].value

\* the resolver with the host settings `h` it reads
ProviderParams(settings, isQuery, h) ==
    CASE settings.source = "extras" ->
             [NoParams EXCEPT !.extrasUrl = h.apiUrl, !.extrasKey = h.apiKey]
      [] settings.source = "cohere" ->
             [NoParams EXCEPT !.input_type = IF isQuery THEN "search_query"
                                             ELSE "search_document"]
      [] settings.source = "ollama" ->
             [NoParams EXCEPT !.apiUrl = EndpointUrl(settings, h.server_urls["ollama"]),
                              !.keep = IF settings.ollama_keep THEN "true" ELSE "false"]
      [] settings.source \in {"llamacpp", "vllm"} ->
             [NoParams EXCEPT !.apiUrl = EndpointUrl(settings, h.server_urls[settings.source])]
      [] settings.source = "bananabread" ->
             [NoParams EXCEPT !.apiUrl = EndpointUrl(settings, "http://localhost:8008"),
                              !.apiKey = ActiveSecretValue(h.bananabread_api_key)]
      [] settings.source = "palm" -> [NoParams EXCEPT !.api = "makersuite"]
      [] settings.source = "vertexai" ->
             [NoParams EXCEPT !.api = "vertexai",
                              !.vertexai_auth_mode = h.vertexai_auth_mode,
                              !.vertexai_region = h.vertexai_region,
                              !.vertexai_express_project_id = h.vertexai_express_project_id]
      [] OTHER -> NoParams

ParamsInit ==
    /\ host = DefaultHost
    /\ initializing = NotInitializing
    /\ call = NoCall
    /\ backend = "standard"
    /\ pluginAvailable = FALSE
    /\ store = {}
    /\ collectionId = IdA
    /\ parsed = NotParsed

\* a first call of the resolver
ResolveParams ==
    /\ call = NoCall
    /\ \E settings \in ParamSettings, isQuery \in BOOLEAN :
          call' = [op |-> "getProviderSpecificParams", settings |-> settings,
                   isQuery |-> isQuery, first |-> NoParams,
                   result |-> ProviderParams(settings, isQuery, host)]
    /\ UNCHANGED <<backend, pluginAvailable, store, collectionId, parsed, host, initializing>>

\* between two calls the host application changes one of its own settings
HostChanges ==
    /\ call.op = "getProviderSpecificParams"
    /\ \E h \in Hosts :
          /\ h # host
          /\ \/ h = [host EXCEPT !.apiUrl = h.apiUrl]
             \/ h = [host EXCEPT !.server_urls = h.server_urls]
             \/ h = [host EXCEPT !.bananabread_api_key = h.bananabread_api_key]
             \/ h = [host EXCEPT !.vertexai_region = h.vertexai_region]
          /\ host' = h
    /\ UNCHANGED <<backend, pluginAvailable, store, collectionId, parsed, call, initializing>>

\* a second call with the same settings and flag; `first` keeps the result
\* of the first
ResolveAgain ==
    /\ call.op = "getProviderSpecificParams"
    /\ call' = [call EXCEPT !.op = "getProviderSpecificParamsAgain",
                            !.first = call.result,
                            !.result = ProviderParams(call.settings, call.isQuery, host)]
    /\ UNCHANGED <<backend, pluginAvailable, store, collectionId, parsed, host, initializing>>

ParamsNext ==
    \/ ResolveParams
    \/ HostChanges
    \/ ResolveAgain
    \/ Return

SpecParams == ParamsInit /\ [][ParamsNext]_vars

\* a step in which the resolver runs
Resolves ==
    call'.op \in {"getProviderSpecificParams", "getProviderSpecificParamsAgain"}
        /\ call' # call

\* C23: getProviderSpecificParams is deterministic and free of side effects:
\* two calls with equal (settings, isQuery) return equal fields whatever
\* happened between them, and a call changes no state.
C23_ResolverPure ==
    [][Resolves => /\ host' = host
                   /\ call'.op = "getProviderSpecificParamsAgain"
                         => call'.result = call'.first]_vars

\* C23 failing calls: for source 'extras' the second call returns another
\* extrasUrl than the first, the host's apiUrl having changed in between
C23_Witness ==
    /\ call.op = "getProviderSpecificParamsAgain"
    /\ call.settings.source = "extras"
    /\ call.first.extrasUrl = "e1"
    /\ call.result.extrasUrl = "e2"

\* the resolver changes no state
C23_SideEffectFree ==
    [][Resolves => <<host, store, pluginAvailable, backend>>' = <<host, store, pluginAvailable, backend>>]_vars

\* two calls return equal fields when the host's settings are the same at
\* both, and always for the providers that read none of them
C23_PureOfSettingsAndHost ==
    call.op = "getProviderSpecificParamsAgain"
        => /\ call.result = ProviderParams(call.settings, call.isQuery, host)
           /\ call.settings.source \in {"cohere", "palm", "transformers", "undefined"}
                 => call.result = call.first

-----------------------------------------------------------------------------
(* Metadata forwarded by insertVectorItems on the multitenant adapters *)

BagKeys == {"importance", "keywords", "note"}

\* the key of item i's bag is in the item's payload metadata, same value
Forwarded(i, key) ==
    (call.items[i].metadata.def /\ call.items[i].metadata[key] # "undefined")
        => call.outcome.requests[1].items[i].metadata[key] = call.items[i].metadata[key]

TenantInsert ==
    backend \in Multitenant /\ call.op = "insertVectorItems" /\ call.items # <<>>

\* C24: on the multitenant adapters every key of an item's metadata bag
\* (importance, keywords, ... included) is in the item's payload metadata of
\* the insert request with the same value, whether or not the item has the
\* field at its top level.
C24_BagForwarded ==
    TenantInsert => \A i \in 1..Len(call.items), key \in BagKeys : Forwarded(i, key)

\* C24 failing call: the bag has importance '5', the item has no top-level
\* importance, and the payload metadata has no importance
C24_Witness ==
    /\ TenantInsert
    /\ call.items[1].metadata.def
    /\ call.items[1].metadata.importance = "5"
    /\ call.items[1].importance = "undefined"
    /\ call.outcome.requests[1].items[1].metadata.importance = "undefined"

\* the keys of the bag that the adapters do not name are forwarded, and a
\* named key is forwarded when the item's top-level field has the same value
C24_UnnamedKeysForwarded ==
    TenantInsert
        => \A i \in 1..Len(call.items) :
              /\ Forwarded(i, "note")
              /\ \A key \in {"importance", "keywords"} :
                    call.items[i][key] = call.items[i].metadata[key] => Forwarded(i, key)

-----------------------------------------------------------------------------
(* Core operations of the hybrid adapter use the native surface *)

NativePaths ==
    {"/api/vector/list", "/api/vector/insert", "/api/vector/delete", "/api/vector/query",
     "/api/vector/query-multi", "/api/vector/purge", "/api/vector/purge-all"}

CoreOps ==
    {"getSavedHashes", "insertVectorItems", "deleteVectorItems", "queryCollection",
     "queryMultipleCollections", "purgeVectorIndex", "purgeAllVectorIndexes"}

\* C25: on the hybrid adapter, whether the plugin is available or not,
\* getSavedHashes, insertVectorItems, deleteVectorItems, queryCollection,
\* queryMultipleCollections and the purge operations send requests to the
\* native surface only, and what they send and return is that of the
\* operation's arguments and answers alone.
C25_CoreOpsNative ==
    (backend = "standard" /\ call.op \in CoreOps)
        => /\ \A i \in DOMAIN call.outcome.requests :
                 call.outcome.requests[i].path \in NativePaths
           /\ call.op = "getSavedHashes"
                 => call.outcome = Standard_getSavedHashes(call.id, call.settings, call.response)
           /\ call.op = "insertVectorItems"
                 => call.outcome = Standard_insertVectorItems(call.id, call.items,
                                                              call.settings, call.response)
           /\ call.op = "deleteVectorItems"
                 => call.outcome = Standard_deleteVectorItems(call.id, call.hashes,
                                                              call.settings, call.response)
           /\ call.op = "purgeVectorIndex"
                 => call.outcome = Standard_purgeVectorIndex(call.id, call.settings,
                                                             call.response)

\* C25 case: the plugin is available and the hybrid adapter's delete goes to
\* /api/vector/delete
C25_Witness ==
    /\ backend = "standard"
    /\ pluginAvailable
    /\ call.op = "deleteVectorItems"
    /\ Len(call.outcome.requests) = 1
    /\ call.outcome.requests[1].path = "/api/vector/delete"

-----------------------------------------------------------------------------
(* No operation retries *)

\* operations that send one request at most
SingleRequestOps ==
    {"healthCheck", "getSavedHashes", "insertVectorItems", "deleteVectorItems",
     "queryCollection", "purgeVectorIndex", "getChunk", "updateChunkText",
     "updateChunkMetadata", "discoverCollections"}

\* operations that send a first request and then at most one other, to
\* another path: the hybrid initialize (probe, backend init), the Milvus
\* initialize (dimension detection, backend init) and the hybrid listChunks
\* and getStats (plugin, native list)
TwoStepOps == {"initialize", "milvusInitialize", "listChunks", "getStats"}

\* each request of the invocation is sent once: the requests are as many as
\* the operation has distinct requests to make, whatever their answers
SentOnce ==
    LET requests == call.outcome.requests
    IN /\ call.op \in SingleRequestOps => Len(requests) <= 1
       /\ call.op \in TwoStepOps
             => /\ Len(requests) <= 2
                /\ Len(requests) = 2 => requests[1].path # requests[2].path
       /\ (call.op = "purgeAllVectorIndexes" /\ backend # "lancedb") => Len(requests) <= 1
       /\ (call.op = "purgeAllVectorIndexes" /\ backend = "lancedb")
             => Len(requests) <= 1 + Len(call.listing.body.collections)
       /\ (call.op = "queryMultipleCollections" /\ backend # "standard")
             => Len(requests) = Len(call.ids)
       /\ (call.op = "queryMultipleCollections" /\ backend = "standard")
             => /\ Len(requests) \in {1, 1 + Len(call.ids)}
                /\ \A i \in 2..Len(requests) :
                      /\ requests[i].path = "/api/vector/query"
                      /\ requests[i].collectionId = call.ids[i - 1]

\* a failed first request ends the invocation with an error: nothing is
\* sent after it
FirstFailureEnds(response) ==
    CallFailed(response) => (call.outcome.raised /\ Len(call.outcome.requests) = 1)

\* outside the fallbacks the specification names (plugin request of the
\* hybrid listChunks and getStats, Milvus dimension detection, a failing
\* collection of queryMultipleCollections, a failing purge of LanceDB's
\* purgeAllVectorIndexes, the probes) a failed request is the last of its
\* invocation
FailureEndsNamed ==
    /\ (call.op = "purgeAllVectorIndexes" /\ backend = "lancedb")
          => FirstFailureEnds(call.listing)
    /\ (call.op \in {"listChunks", "getStats"} /\ backend # "standard")
          => FirstFailureEnds(call.response)

\* C26: no operation retries: within one invocation each request is sent at
\* most once whether it succeeds or fails, and a failed request outside the
\* named fallback paths is followed by no further request of the invocation
\* before the error is raised.
C26_NoRetryNoFallback ==
    /\ call.op # "none" => SentOnce
    /\ FailureEndsNamed
    /\ (call.op = "queryMultipleCollections" /\ backend = "standard")
          => FirstFailureEnds(call.multi)

\* C26, with the hybrid adapter's query-multi fallback among the fallback
\* paths: a transport failure of query-multi ends the invocation with an
\* error; a non-success status is followed by one query per requested
\* collection, each sent once.
C26_NoRetry ==
    /\ call.op # "none" => SentOnce
    /\ FailureEndsNamed
    /\ (call.op = "queryMultipleCollections" /\ backend = "standard")
          => /\ call.multi.net = "error" => FirstFailureEnds(call.multi)
             /\ (call.multi.net = "ok" /\ ~ResponseOk(call.multi))
                   => (~call.outcome.raised
                          /\ Len(call.outcome.requests) = 1 + Len(call.ids))

\* C26 case: the hybrid query-multi answers 500, the per-collection queries
\* of two collections both fail, and three requests were sent in all
C26_Witness ==
    /\ backend = "standard"
    /\ call.op = "queryMultipleCollections"
    /\ Len(call.ids) = 2
    /\ call.multi.net = "ok"
    /\ call.multi.status = 500
    /\ \A i \in 1..2 : CallFailed(call.per[call.ids[i]])
    /\ ~call.outcome.raised
    /\ Len(call.outcome.requests) = 3

-----------------------------------------------------------------------------
(* The capability flag is written by initialize only *)

\* a step in which an operation other than initialize runs
OtherOperation ==
    call' # call /\ call'.op \notin {"none", "initialize"}

\* C27: the hybrid adapter's capability flag is established by initialize
\* only: every other operation, core or extended, succeeding or failing (a
\* failed plugin call included), leaves pluginAvailable unchanged.
C27_FlagSetByInitializeOnly ==
    [][OtherOperation => pluginAvailable' = pluginAvailable]_vars

\* C27 case: the plugin was found by initialize, a getChunk through the
\* plugin failed, and the flag is still set
C27_Witness ==
    /\ backend = "standard"
    /\ call.op = "getChunk"
    /\ call.available
    /\ CallFailed(call.response)
    /\ pluginAvailable

-----------------------------------------------------------------------------
(* Threshold of the hybrid queryMultipleCollections *)

HybridMulti == backend = "standard" /\ call.op = "queryMultipleCollections"

\* C28: on the hybrid adapter the threshold argument of
\* queryMultipleCollections is the threshold of every request of the call:
\* of the query-multi request and, when query-multi answers non-success, of
\* each per-collection fallback query, which does not use
\* settings.score_threshold in its place.
C28_ThresholdOnEveryPath ==
    HybridMulti => \A i \in DOMAIN call.outcome.requests :
                      call.outcome.requests[i].threshold = call.threshold

\* C28 failing call: query-multi answers 500 and the fallback query of the
\* first collection carries settings.score_threshold (0.5), not the
\* threshold argument (0.3)
C28_Witness ==
    /\ HybridMulti
    /\ call.threshold = 30
    /\ call.settings.score_threshold = Num(50)
    /\ call.multi.net = "ok"
    /\ call.multi.status = 500
    /\ Len(call.outcome.requests) >= 2
    /\ call.outcome.requests[1].threshold = 30
    /\ call.outcome.requests[2].threshold = 50

\* the query-multi request itself carries the threshold argument
C28_ThresholdOfQueryMulti ==
    HybridMulti => call.outcome.requests[1].threshold = call.threshold

-----------------------------------------------------------------------------
(* initialize of the hybrid adapter, one await at a time, with an extended *)
(* operation running between its steps                                    *)

InterleavedInit ==
    /\ backend = "standard"
    /\ pluginAvailable = FALSE
    /\ call = NoCall
    /\ store = {}
    /\ collectionId = IdA
    /\ parsed = NotParsed
    /\ host = DefaultHost
    /\ initializing = NotInitializing

\* initialize is called and sends the probe for availability
InitializeCalled ==
    /\ initializing.pc = "idle"
    /\ initializing' = [pc |-> "health", writes |-> <<>>, responses |-> <<>>]
    /\ UNCHANGED <<backend, pluginAvailable, call, store, collectionId, parsed, host>>

\* the probe is answered: the flag takes response.ok, and the backend-init
\* request is sent when it is true; a probe that throws is caught
HealthAnswered ==
    /\ initializing.pc = "health"
    /\ \E health \in PlainResponses :
          LET available == health.net # "error" /\ ResponseOk(health)
          IN /\ pluginAvailable' = available
             /\ initializing' = [pc |-> IF available THEN "init" ELSE "done",
                                 writes |-> Append(initializing.writes, available),
                                 responses |-> <<health>>]
    /\ UNCHANGED <<backend, call, store, collectionId, parsed, host>>

\* the backend-init request is answered: any answer is accepted, and one
\* that throws is caught, where the flag is assigned false
InitAnswered ==
    /\ initializing.pc = "init"
    /\ \E init \in PlainResponses :
          /\ pluginAvailable' = IF init.net = "error" THEN FALSE ELSE pluginAvailable
          /\ initializing' = [pc |-> "done",
                              writes |-> IF init.net = "error"
                                         THEN Append(initializing.writes, FALSE)
                                         ELSE initializing.writes,
                              responses |-> Append(initializing.responses, init)]
    /\ UNCHANGED <<backend, call, store, collectionId, parsed, host>>

InitializeReturned ==
    /\ initializing.pc = "done"
    /\ initializing' = NotInitializing
    /\ UNCHANGED <<backend, pluginAvailable, call, store, collectionId, parsed, host>>

\* the outcome of a call whose request is unanswered
Pending == [raised |-> FALSE, value |-> "pending", requests |-> <<>>]

\* updateChunkText is called, no earlier call being in progress: it reads
\* the flag, and raises at once or sends its request; `during` is where an
\* initialize was when the flag was read
UpdateChunkTextCalled ==
    /\ IF call.op = "none" THEN TRUE ELSE call.pc = "done"
    /\ \E id \in CollectionIds, hash \in Hashes, newText \in Texts, settings \in SettingsSet :
          call' = [op |-> "updateChunkText",
                   pc |-> IF pluginAvailable THEN "sent" ELSE "done",
                   id |-> id, hash |-> hash, text |-> newText, settings |-> settings,
                   available |-> pluginAvailable, during |-> initializing.pc,
                   response |-> Unasked(ExtResponses),
                   outcome |-> IF pluginAvailable THEN Pending
                               ELSE Standard_updateChunkText(FALSE, id, hash, newText,
                                                             settings, Unasked(ExtResponses))]
    /\ UNCHANGED <<backend, pluginAvailable, store, collectionId, parsed, host, initializing>>

UpdateChunkTextAnswered ==
    /\ call.op = "updateChunkText"
    /\ call.pc = "sent"
    /\ \E response \in ExtResponses :
          call' = [call EXCEPT !.pc = "done", !.response = response,
                               !.outcome = Standard_updateChunkText(
                                               call.available, call.id, call.hash, call.text,
                                               call.settings, response)]
    /\ UNCHANGED <<backend, pluginAvailable, store, collectionId, parsed, host, initializing>>

InterleavedNext ==
    \/ InitializeCalled
    \/ HealthAnswered
    \/ InitAnswered
    \/ InitializeReturned
    \/ UpdateChunkTextCalled
    \/ UpdateChunkTextAnswered

SpecInterleaved == InterleavedInit /\ [][InterleavedNext]_vars

\* an initialize has assigned true to the flag and false after it
WroteTrueThenFalse ==
    \E i, j \in DOMAIN initializing.writes :
        i < j /\ initializing.writes[i] /\ ~initializing.writes[j]

\* an extended operation read the flag while the backend-init request of an
\* initialize was unanswered
ReadBeforeInitCompleted == call.op = "updateChunkText" /\ call.during = "init"

\* C29: on the hybrid adapter, with extended operations running between the
\* steps of an initialize, an initialize assigns the capability flag at most
\* once; the flag is not true (and no extended operation reads it as true)
\* while the backend-init request is unanswered; and no initialize assigns
\* false after it has assigned true.
C29_FlagWrittenOnce ==
    /\ Len(initializing.writes) <= 1
    /\ initializing.pc = "init" => ~pluginAvailable
    /\ ReadBeforeInitCompleted => ~call.available
    /\ ~WroteTrueThenFalse

\* C29 failing run: the probe answered 200, updateChunkText read the flag as
\* true and sent its request while the backend-init request was unanswered,
\* then the backend-init request threw and the flag went back to false
C29_Witness ==
    /\ ReadBeforeInitCompleted
    /\ call.available
    /\ call.pc = "sent"
    /\ initializing.pc = "done"
    /\ initializing.writes = <<TRUE, FALSE>>
    /\ ~pluginAvailable

\* an initialize assigns the flag at most twice, and twice only as true then
\* false
C29_AtMostTwoWrites ==
    /\ Len(initializing.writes) <= 2
    /\ Len(initializing.writes) = 2 => initializing.writes = <<TRUE, FALSE>>

\* when an initialize has ended the flag is what initialize taken as one
\* step leaves
C29_EndsAsInitialize ==
    initializing.pc = "done" =>
        pluginAvailable =
            Standard_initialize(
                initializing.responses[1],
                IF Len(initializing.responses) = 2 THEN initializing.responses[2]
                ELSE Unasked(PlainResponses)).pluginAvailable

-----------------------------------------------------------------------------
(* The pre-computed query vector *)

QueryOps == {"queryCollection", "queryMultipleCollections"}

\* the request carries the vector under the search text when one was
\* supplied, and no embeddings when none was
CarriesQueryVector(req, searchText, queryVector) ==
    IF queryVector # "null"
    THEN /\ req.embeddings.present
         /\ req.embeddings.text = searchText
         /\ req.embeddings.vector = queryVector
    ELSE ~req.embeddings.present

EveryRequestCarriesQueryVector ==
    \A i \in DOMAIN call.outcome.requests :
        CarriesQueryVector(call.outcome.requests[i], call.searchText, call.queryVector)

\* C30: on every adapter each query request of queryCollection and of
\* queryMultipleCollections carries the query vector the caller supplied,
\* under the search text, and carries no embeddings when none was supplied.
C30_QueryVectorForwarded ==
    call.op \in QueryOps => EveryRequestCarriesQueryVector

\* C30 failing call: the Qdrant adapter is handed a query vector, its query
\* is answered and returned, and the request carried no embeddings
C30_Witness ==
    /\ call.op = "queryCollection"
    /\ backend = "qdrant"
    /\ call.queryVector = "qv"
    /\ ~call.outcome.raised
    /\ Len(call.outcome.requests) = 1
    /\ ~call.outcome.requests[1].embeddings.present

\* the hybrid adapter forwards the vector on every request, the fallback
\* queries of queryMultipleCollections included
C30_HybridForwards ==
    (call.op \in QueryOps /\ backend = "standard") => EveryRequestCarriesQueryVector

\* the adapters of the extension never send embeddings with a query
C30_PluginNeverSendsEmbeddings ==
    (call.op \in QueryOps /\ backend # "standard") =>
        \A i \in DOMAIN call.outcome.requests : ~call.outcome.requests[i].embeddings.present

\* the hybrid adapter handed a vector sends it on the query-multi request
\* and on a fallback query
C30_HybridFallbackReached ==
    /\ call.op = "queryMultipleCollections"
    /\ backend = "standard"
    /\ call.queryVector = "qv"
    /\ Len(call.outcome.requests) >= 2
    /\ call.outcome.requests[2].embeddings.vector = "qv"

=============================================================================
